---- MODULE Spec2Model ----
(***************************************************************************)
(* State-machine model of the sand / FLIP simulator (flip-sim): the sand   *)
(* automaton step, the particle store with its free-list allocator, the    *)
(* spawn pass and the frame loop that sequences the GPU passes.            *)
(*                                                                         *)
(* Scaling.  The grid is WIDTH x HEIGHT cells instead of 256 x 256, with   *)
(* PARTICLES_PER_CELL particle slots per cell instead of 9 and room for    *)
(* MAX_CELL_PARTICLES binned particles per cell instead of 32.  Floating   *)
(* point fields are kept as scaled integers: density in hundredths, grid   *)
(* velocity in units of 0.05, solid velocity in cells per second           *)
(* (displacement * 60, dt = 1/60).                                         *)
(* 32-bit unsigned values that do not fit a model integer (the hash) are   *)
(* pairs <<high 16 bits, low 16 bits>>.                                    *)
(***************************************************************************)
EXTENDS Integers, Sequences, FiniteSets, TLC

(***************************************************************************)
(* Bounds of the model.                                                    *)
(***************************************************************************)
WIDTH == 5
HEIGHT == 5
MaxFilled == 2
MaxFrame == 1
NumSamples == 600
NumSchedSamples == 8
MaxReorder == 2
MaxSteps == 2
PARTICLES_PER_CELL == 1
MAX_CELL_PARTICLES == 2
MaxRequests == 2
MaxFrames == 3
\* Automaton steps applied to a resting grain.
MaxRest == 3
\* Frames of a pour that is then walled in.
MaxPourFrames == 6
\* Grid-only version: displayed frames, and the largest simSpeed.
MaxRenders == 3
MaxSpeed == 2
\* Sand-only version: grains of an input grid.
MaxGrains == 4
\* Bin pass: particle slots that can hold a live particle, and bin passes.
MaxBinned == 3
MaxBinPasses == 2
\* Deposit at full scale: deposit passes of a run.
MaxDeposits == 2
\* Pressure solve: relaxation passes of a solve.
PRESSURE_ITERATIONS == 3
\* Frames whose free list is rebuilt one invocation at a time.
MaxScans == 2
\* Steps of the multi-material automaton from one grid.
MaxMatSteps == 2
\* Frames of the fluid solver's driver, and the most extrapolation passes.
MaxPipeFrames == 3
MaxExtrapolation == 3
\* Frames of the grid-only driver and the highest speed of its slider.
MaxShowFrames == 3
MaxShowSpeed == 4
\* Cells filled at the start of a settling run and the seeds of its steps.
MaxSettleCells == 1
MaxSeed == 1
\* Free slots, calls of one invocation and spurious failures of one call in
\* a spawn pass.
MaxFree == 3
MaxPops == 2
MaxSpurious == 2
\* Particles a WATER request fills a cell with, and the side of the square
\* of slots they are laid on (9 and 3 in SIM).
WaterPerCell == 4
WaterSide == 2

(***************************************************************************)
(* Program constants.                                                      *)
(***************************************************************************)
EMPTY == 0
WALL == 1
SAND == 2
WATER == 3
ROCK == 6
ERASER == 255
AGE_MASK == 65535
COLOR_SHIFT == 16
MAX_AGE == 65535
INTERACT_THRESHOLD == 5
DT_INV == 60
\* Cell types of the grid-only and sand-only versions.
G_SAND == 1
G_WALL == 2
G_WATER == 3
G_STEAM == 4
G_ICE == 5
G_LAVA == 6
G_ROCK == 7
\* The grid and the fixed-point scale of the fluid solver as configured.
GRID_WIDTH == 256
GRID_HEIGHT == 256
SIM_PARTICLES_PER_CELL == 9
FIXED_SCALE == 65536

VARIABLES
    materialTex,   \* [0..1 -> [CellIds -> material]]  double-buffered material
    sandMetaTex,   \* [0..1 -> [CellIds -> packed meta]]
    solidVelTex,   \* [0..1 -> [CellIds -> <<vx, vy>>]]
    matIndex,      \* index of the authoritative material buffer
    velIndex,      \* index of the current grid-velocity buffer
    densityTex,    \* [CellIds -> density in hundredths]
    velUTex,       \* [0..1 -> [UFaceIds -> u in units of 0.05]]
    params,        \* the params uniform: [frame, sandFluidity (percent)]
    sandMove,      \* [CellIds -> <<dx, dy>>]  movement computed by each SAND
                   \* invocation of the last automaton step (observer only)
    invoked,       \* cells whose invocation of the running dispatch is done
    twin,          \* what the dispatch yields when every invocation reads
                   \* the snapshot before any of them stores (observer only)
    steps,         \* automaton steps completed (observer only)
    pc,            \* position of the driver
    particlePos,   \* [ParticleIds -> cell holding the particle's position]
    particleVel,   \* [ParticleIds -> velocity, as a cell offset per step]
    particleMass,  \* [ParticleIds -> mass in units of 1 / PARTICLES_PER_CELL]
    cellCounts,    \* [CellIds -> particles counted into the cell by the bin]
    cellParticles, \* [CellIds -> the particle indices the bin stored]
    freeCount,     \* the atomic counter of the free list
    freeList,      \* the dead slots listed by buildFreeList
    spawnTex,      \* [CellIds -> pending request: 0, a material, or ERASER]
    spawnInv,      \* locals of the spawn invocations that pop free slots
    popped,        \* slots popFreeIndex returned in this pass (observer only)
    paused,        \* state.paused
    frames,        \* frames started (observer only)
    lastPass,      \* buffer indices the last material pass read and wrote,
                   \* and the solid-velocity index the last automaton step
                   \* wrote (observer only)
    textures,      \* grid-only and sand-only versions: the two cell textures,
                   \* [0..1 -> [CellIds -> [type, age, color]]]
    renderFrame,   \* their render loop's frame counter
    simSpeed,      \* automaton steps per displayed frame
    isPaused,
    paramsBuffer,  \* the params uniform as the queue has written it:
                   \* [x (frame), w (fluidity)]
    queue,         \* operations issued to the device queue, oldest first
    evaluated,     \* params.x of every compute pass the queue has run so
                   \* far (observer only)
    binInv,        \* binParticles invocations between their atomicAdd and
                   \* their store: <<idx, cIdx, slot>>
    swarm,         \* deposit at full scale: the live particles, count of
                   \* them at one position pos (quarter cells) with one
                   \* velocity vel
    sums,          \* the atomic accumulators of the nodes and faces around
                   \* the swarm: [densitySum, uSum, uWeight, vSum, vWeight]
    normOut,       \* what normalizeGrid stored: [density, velUPrev,
                   \* velVPrev, velU, velV]
    velVTex,       \* pressure solve: [VFaceIds -> v]
    markerBuffer,  \* [CellIds -> particles marked in the cell]
    pressureTex,   \* [0..1 -> [CellIds -> pressure]]
    pressureIndex, \* index of the pressure texture the next pass reads
    simSettings,   \* [airMixing]
    worldParamsBuffer, \* [gravity, temperature] of main.js: percent, Celsius
    simConfig,     \* frame() of the fluid solver: [pressureIterations,
                   \* extrapolationIters, steps, vorticity, ball]
    loopAt,        \* its loop variables: [step, iter, readIndex, writeIndex]
    passLog,       \* the bind groups of the passes of the frame so far,
                   \* each with the buffers last written when it ran
                   \* (observer only)
    latest         \* [vel, p]: index of the velocity and of the pressure
                   \* buffer written last, -1 before the first write; for
                   \* the grid-only driver [grid] (observer only)

gridVars == <<materialTex, sandMetaTex, solidVelTex, matIndex>>
fluidVars == <<velIndex, densityTex, velUTex, params>>
schedVars == <<sandMove, invoked, twin, steps>>
particleVars == <<particlePos, particleVel, particleMass, cellCounts,
                  cellParticles,
                  freeCount, freeList, spawnTex, spawnInv, popped>>
frameVars == <<paused, frames, lastPass>>
driverVars == <<worldParamsBuffer, simConfig, loopAt, passLog, latest>>
flipVars == <<swarm, sums, normOut, velVTex, markerBuffer, pressureTex,
              pressureIndex, simSettings, driverVars>>
soloVars == <<textures, renderFrame, simSpeed, isPaused, paramsBuffer, queue,
              evaluated, binInv, flipVars>>

vars == <<gridVars, fluidVars, schedVars, pc, particleVars, frameVars,
          soloVars>>

Cells == (0 .. WIDTH - 1) \X (0 .. HEIGHT - 1)
UFaces == (0 .. WIDTH) \X (0 .. HEIGHT - 1)

\* Textures and buffers are stored row by row: texel pos is entry
\* cellIndex(pos); the u-face texture is one texel wider.
CellIds == 0 .. WIDTH * HEIGHT - 1
UFaceIds == 0 .. (WIDTH + 1) * HEIGHT - 1
cellIndex(pos) == pos[2] * WIDTH + pos[1]
cellPos(i) == <<i % WIDTH, i \div WIDTH>>
uIndex(pos) == pos[2] * (WIDTH + 1) + pos[1]
uPos(i) == <<i % (WIDTH + 1), i \div (WIDTH + 1)>>

MAX_PARTICLES == WIDTH * HEIGHT * PARTICLES_PER_CELL
ParticleIds == 0 .. MAX_PARTICLES - 1

inBounds(pos) ==
    pos[1] >= 0 /\ pos[1] < WIDTH /\ pos[2] >= 0 /\ pos[2] < HEIGHT

isSolid(t) == t = WALL \/ t = ROCK \/ t = SAND

Off(pos, dx, dy) == <<pos[1] + dx, pos[2] + dy>>

\* f itself, as an explicit table: TLC then evaluates each f[x] once instead
\* of at every application.
Tabulate(f) == f @@ << >>

Min(a, b) == IF a < b THEN a ELSE b
Max(a, b) == IF a > b THEN a ELSE b
Abs(a) == IF a < 0 THEN -a ELSE a

(***************************************************************************)
(* 32-bit unsigned arithmetic on pairs <<hi, lo>> of 16-bit halves.        *)
(***************************************************************************)
U32(n) == <<n \div 65536, n % 65536>>

\* The two 16-bit halves of low + 2^16 * high, modulo 2^32.
joinHalves(low, high) == <<(high + (low \div 65536)) % 65536, low % 65536>>

\* Product of two values given by their 8-bit limbs, least significant first.
mulLimbs(a0, a1, a2, a3, b0, b1, b2, b3) ==
    joinHalves(a0 * b0 + 256 * (a0 * b1 + a1 * b0),
               a0 * b2 + a1 * b1 + a2 * b0
                   + 256 * (a0 * b3 + a1 * b2 + a2 * b1 + a3 * b0))

MulU32(a, b) ==
    mulLimbs(a[2] % 256, a[2] \div 256, a[1] % 256, a[1] \div 256,
             b[2] % 256, b[2] \div 256, b[1] % 256, b[1] \div 256)

AddU32(a, b) == joinHalves(a[2] + b[2], a[1] + b[1])

RECURSIVE XorBits(_, _, _)
XorBits(x, y, n) ==
    IF n = 0 THEN 0
    ELSE ((x + y) % 2) + 2 * XorBits(x \div 2, y \div 2, n - 1)

XorU32(a, b) == <<XorBits(a[1], b[1], 16), XorBits(a[2], b[2], 16)>>

Shr13(a) == U32(a[1] * 8 + (a[2] \div 8192))
Shr16(a) == <<0, a[1]>>

xorShr13(h) == XorU32(h, Shr13(h))
xorShr16(h) == XorU32(h, Shr16(h))

\* hash(pos, frame): position + frame hash seeding every pseudo-random draw.
hash(pos, frame) ==
    xorShr16(MulU32(xorShr13(AddU32(AddU32(MulU32(U32(pos[1]), U32(374761393)),
                                           MulU32(U32(pos[2]), U32(668265263))),
                                    MulU32(U32(frame), U32(1013904223)))),
                    U32(1274126177)))

\* The hash values the model draws, computed once: hashAt(pos, frame) is
\* hash(pos, frame) for every cell and every frame value up to FrameCap.
FrameCap == MaxFrame + 8
HashTable ==
    Tabulate([f \in 0 .. FrameCap |->
                 Tabulate([i \in CellIds |-> hash(cellPos(i), f)])])
hashAt(pos, frame) == HashTable[frame][cellIndex(pos)]

\* rng % 100u for a <<hi, lo>> value (65536 % 100 = 36).
Mod100(h) == ((h[1] % 100) * 36 + (h[2] % 100)) % 100

\* h & 1023u, the numerator of rand01.
Low10(h) == h[2] % 1024

(***************************************************************************)
(* Sand automaton (sandStepShader).  The bind group sandGroups[mi][vi]     *)
(* reads materialTex[mi], sandMetaTex[mi], densityTex and velUTex[vi] and  *)
(* writes materialTex[1-mi], sandMetaTex[1-mi] and solidVelTex[1-mi].      *)
(***************************************************************************)
materialIn == materialTex[matIndex]
sandMetaIn == sandMetaTex[matIndex]
velUIn == velUTex[velIndex]

getMaterial(pos) == IF ~inBounds(pos) THEN WALL ELSE materialIn[cellIndex(pos)]

isEmpty(pos) == inBounds(pos) /\ getMaterial(pos) = EMPTY

getDensity(pos) == IF ~inBounds(pos) THEN 0 ELSE densityTex[cellIndex(pos)]

\* Twice the sampled horizontal velocity: u0 + u1 (vx = 0.5 * (u0 + u1)).
sampleVelX2(pos) ==
    IF ~inBounds(pos) THEN 0 ELSE velUIn[uIndex(pos)] + velUIn[uIndex(Off(pos, 1, 0))]

getSandMeta(pos) == IF ~inBounds(pos) THEN 0 ELSE sandMetaIn[cellIndex(pos)]

getSandAge(metaValue) == metaValue % (AGE_MASK + 1)

getSandColorVar(metaValue) == (metaValue \div (2 ^ COLOR_SHIFT)) % 256

\* Variant: the age is masked without being capped first.
packSandMeta_Wrapping(age, colorVar) ==
    (age % (AGE_MASK + 1)) + (colorVar % 256) * (2 ^ COLOR_SHIFT)

packSandMeta(age, colorVar) ==
    (Min(age, MAX_AGE) % (AGE_MASK + 1)) + (colorVar % 256) * (2 ^ COLOR_SHIFT)

\* abs(vx) > 0.1 with vx = 0.5 * (u0 + u1) and u in units of 0.05:
\* |u0 + u1| * 0.025 > 0.1  <=>  |u0 + u1| > 4.
preferLeft(pos) ==
    LET vx2 == sampleVelX2(pos)
    IN  IF Abs(vx2) > 4 THEN vx2 < 0
        ELSE ((pos[1] + pos[2] + params.frame) % 2) = 0

\* rand01(pos, frame) > clamp(sandFluidity * 0.5, 0.05, 1.0), with
\* rand01 = (h & 1023) / 1023 and sandFluidity = percent / 100.
wetHolds(pos) ==
    Low10(hashAt(pos, params.frame)) * 200
        > 1023 * Max(10, Min(params.sandFluidity, 200))

\* Variant: the bands of the sand-only version (80, 40, 15, 3).
maxSettleChance_OldBands(age, wet) ==
    LET baseChance == IF age > 60 THEN 3
                      ELSE IF age > 30 THEN 15
                      ELSE IF age > 10 THEN 40
                      ELSE 80
        ff100 == Min(IF wet THEN params.sandFluidity
                     ELSE 2 * params.sandFluidity, 200)
    IN  Min((baseChance * ff100) \div 100, 95)

\* u32(min(baseChance * clamp(sandFluidity * 2 * wetFactor, 0, 2), 95)).
maxSettleChance(age, wet) ==
    LET baseChance == IF age > 60 THEN 2
                      ELSE IF age > 30 THEN 12
                      ELSE IF age > 10 THEN 30
                      ELSE 60
        ff100 == Min(IF wet THEN params.sandFluidity
                     ELSE 2 * params.sandFluidity, 200)
    IN  Min((baseChance * ff100) \div 100, 95)

\* Variant: a grain slides onto any empty neighbour, supported or not,
\* whatever its settle roll.
getSandMovement_Restless(pos, age, rng) ==
    LET below == getMaterial(Off(pos, 0, 1))
        left == getMaterial(Off(pos, -1, 0))
        right == getMaterial(Off(pos, 1, 0))
    IN  IF below = EMPTY THEN <<0, 1>>
        ELSE IF left = EMPTY /\ right = EMPTY
             THEN (IF preferLeft(pos) THEN <<-1, 0>> ELSE <<1, 0>>)
        ELSE IF left = EMPTY THEN <<-1, 0>>
        ELSE IF right = EMPTY THEN <<1, 0>>
        ELSE <<0, 0>>

\* Variant: a diagonal fall looks at the diagonal cell only.
getSandMovement_CutsCorners(pos, age, rng) ==
    IF getMaterial(Off(pos, 0, 1)) = EMPTY THEN <<0, 1>>
    ELSE IF getMaterial(Off(pos, -1, 1)) = EMPTY THEN <<-1, 1>>
    ELSE IF getMaterial(Off(pos, 1, 1)) = EMPTY THEN <<1, 1>>
    ELSE <<0, 0>>

\* Variant: the settle roll is taken before the fall is tried.
getSandMovement_SettleFirst(pos, age, rng) ==
    LET wet == getDensity(pos) >= INTERACT_THRESHOLD
    IN  IF wet /\ wetHolds(pos) THEN <<0, 0>>
        ELSE IF Mod100(rng) >= maxSettleChance(age, wet) THEN <<0, 0>>
        ELSE IF getMaterial(Off(pos, 0, 1)) = EMPTY THEN <<0, 1>>
        ELSE <<0, 0>>

\* Variant: a slide asks only for an empty neighbour, not for a drop beyond it.
getSandMovement_SlidesOnFlat(pos, age, rng) ==
    LET wet == getDensity(pos) >= INTERACT_THRESHOLD
        below == getMaterial(Off(pos, 0, 1))
        belowLeft == getMaterial(Off(pos, -1, 1))
        belowRight == getMaterial(Off(pos, 1, 1))
        left == getMaterial(Off(pos, -1, 0))
        right == getMaterial(Off(pos, 1, 0))
        canFallLeft == (belowLeft = EMPTY /\ left = EMPTY)
                       /\ ~(left = SAND /\ belowLeft = EMPTY)
        canFallRight == (belowRight = EMPTY /\ right = EMPTY)
                        /\ ~(right = SAND /\ belowRight = EMPTY)
        wantLeft == preferLeft(pos)
        settleRoll == Mod100(rng)
        canSlideLeft == left = EMPTY
        canSlideRight == right = EMPTY
    IN  IF wet /\ wetHolds(pos) THEN <<0, 0>>
        ELSE IF below = EMPTY THEN <<0, 1>>
        ELSE IF canFallLeft /\ canFallRight
             THEN (IF wantLeft THEN <<-1, 1>> ELSE <<1, 1>>)
        ELSE IF canFallLeft THEN <<-1, 1>>
        ELSE IF canFallRight THEN <<1, 1>>
        ELSE IF settleRoll >= maxSettleChance(age, wet) THEN <<0, 0>>
        ELSE IF canSlideLeft /\ canSlideRight
             THEN (IF wantLeft THEN <<-1, 0>> ELSE <<1, 0>>)
        ELSE IF canSlideLeft THEN <<-1, 0>>
        ELSE IF canSlideRight THEN <<1, 0>>
        ELSE <<0, 0>>

getSandMovement(pos, age, rng) ==
    LET wet == getDensity(pos) >= INTERACT_THRESHOLD
        below == getMaterial(Off(pos, 0, 1))
        belowLeft == getMaterial(Off(pos, -1, 1))
        belowRight == getMaterial(Off(pos, 1, 1))
        left == getMaterial(Off(pos, -1, 0))
        right == getMaterial(Off(pos, 1, 0))
        canFallLeft == (belowLeft = EMPTY /\ left = EMPTY)
                       /\ ~(left = SAND /\ belowLeft = EMPTY)
        canFallRight == (belowRight = EMPTY /\ right = EMPTY)
                        /\ ~(right = SAND /\ belowRight = EMPTY)
        wantLeft == preferLeft(pos)
        settleRoll == Mod100(rng)
        left2 == getMaterial(Off(pos, -2, 0))
        right2 == getMaterial(Off(pos, 2, 0))
        belowLeft2 == getMaterial(Off(pos, -2, 1))
        belowRight2 == getMaterial(Off(pos, 2, 1))
        canSlideLeft ==
            (left = EMPTY
             /\ (belowLeft = EMPTY \/ (left2 = EMPTY /\ belowLeft2 = EMPTY)))
            /\ ~(left2 = SAND /\ belowLeft = EMPTY)
        canSlideRight ==
            (right = EMPTY
             /\ (belowRight = EMPTY \/ (right2 = EMPTY /\ belowRight2 = EMPTY)))
            /\ ~(right2 = SAND /\ belowRight = EMPTY)
    IN  IF wet /\ wetHolds(pos) THEN <<0, 0>>
        ELSE IF below = EMPTY THEN <<0, 1>>
        ELSE IF canFallLeft /\ canFallRight
             THEN (IF wantLeft THEN <<-1, 1>> ELSE <<1, 1>>)
        ELSE IF canFallLeft THEN <<-1, 1>>
        ELSE IF canFallRight THEN <<1, 1>>
        ELSE IF settleRoll >= maxSettleChance(age, wet) THEN <<0, 0>>
        ELSE IF canSlideLeft /\ canSlideRight
             THEN (IF wantLeft THEN <<-1, 0>> ELSE <<1, 0>>)
        ELSE IF canSlideLeft THEN <<-1, 0>>
        ELSE IF canSlideRight THEN <<1, 0>>
        ELSE <<0, 0>>

getMovement(pos, rng) == getSandMovement(pos, getSandAge(getSandMeta(pos)), rng)

packIncoming(metaValue) == metaValue + 1
unpackIncoming(metaValue) == metaValue - 1

\* Does the grain at pos + fromOffset move into pos?  0 when it does not,
\* its metadata + 1 when it does.
checkIncoming(pos, fromOffset, frame) ==
    LET fromPos == Off(pos, fromOffset[1], fromOffset[2])
    IN  IF getMaterial(fromPos) # SAND THEN 0
        ELSE LET movement == getMovement(fromPos, hashAt(fromPos, frame))
             IN  IF Off(fromPos, movement[1], movement[2]) = pos
                 THEN packIncoming(getSandMeta(fromPos))
                 ELSE 0

getIncomingMove(pos, fromOffset, frame) ==
    LET fromPos == Off(pos, fromOffset[1], fromOffset[2])
    IN  IF getMaterial(fromPos) # SAND THEN <<0, 0>>
        ELSE LET movement == getMovement(fromPos, hashAt(fromPos, frame))
             IN  IF Off(fromPos, movement[1], movement[2]) = pos
                 THEN movement
                 ELSE <<0, 0>>

\* The neighbours of a destination in the order it considers them: above,
\* then left/right (right/left when flipped), then the two upper diagonals
\* in the same handedness.
side1(flipIncoming) == IF ~flipIncoming THEN <<-1, 0>> ELSE <<1, 0>>
side2(flipIncoming) == IF ~flipIncoming THEN <<1, 0>> ELSE <<-1, 0>>
diag1(flipIncoming) == IF ~flipIncoming THEN <<-1, -1>> ELSE <<1, -1>>
diag2(flipIncoming) == IF ~flipIncoming THEN <<1, -1>> ELSE <<-1, -1>>

\* Variant: a source that never yields to another contender.
hasHigherPriorityIncoming_NeverYields(destPos, myOffset, frame) == FALSE

\* A source asks whether a neighbour of its destination that comes strictly
\* earlier in the destination's order is inbound too.
hasHigherPriorityIncoming(destPos, myOffset, frame) ==
    LET flipIncoming == ((destPos[1] + destPos[2] + frame) % 2) = 1
    IN  IF myOffset = <<0, -1>> THEN FALSE
        ELSE IF checkIncoming(destPos, <<0, -1>>, frame) # 0 THEN TRUE
        ELSE IF myOffset = side1(flipIncoming) THEN FALSE
        ELSE IF checkIncoming(destPos, side1(flipIncoming), frame) # 0 THEN TRUE
        ELSE IF myOffset = side2(flipIncoming) THEN FALSE
        ELSE IF checkIncoming(destPos, side2(flipIncoming), frame) # 0 THEN TRUE
        ELSE IF myOffset = diag1(flipIncoming) THEN FALSE
        ELSE IF checkIncoming(destPos, diag1(flipIncoming), frame) # 0 THEN TRUE
        ELSE IF myOffset = diag2(flipIncoming) THEN FALSE
        ELSE IF checkIncoming(destPos, diag2(flipIncoming), frame) # 0 THEN TRUE
        ELSE FALSE

\* Variant: the destination orders left and right with the opposite parity.
acceptedOffset_OppositeParity(pos, frame) ==
    LET flipIncoming == ((pos[1] + pos[2] + frame) % 2) = 0
    IN  IF checkIncoming(pos, <<0, -1>>, frame) # 0 THEN <<0, -1>>
        ELSE IF checkIncoming(pos, side1(flipIncoming), frame) # 0
             THEN side1(flipIncoming)
        ELSE IF checkIncoming(pos, side2(flipIncoming), frame) # 0
             THEN side2(flipIncoming)
        ELSE IF checkIncoming(pos, diag1(flipIncoming), frame) # 0
             THEN diag1(flipIncoming)
        ELSE IF checkIncoming(pos, diag2(flipIncoming), frame) # 0
             THEN diag2(flipIncoming)
        ELSE <<0, 0>>

\* The EMPTY branch of main: the offset of the first inbound neighbour in
\* the destination's order, <<0, 0>> if there is none.
acceptedOffset(pos, frame) ==
    LET flipIncoming == ((pos[1] + pos[2] + frame) % 2) = 1
    IN  IF checkIncoming(pos, <<0, -1>>, frame) # 0 THEN <<0, -1>>
        ELSE IF checkIncoming(pos, side1(flipIncoming), frame) # 0
             THEN side1(flipIncoming)
        ELSE IF checkIncoming(pos, side2(flipIncoming), frame) # 0
             THEN side2(flipIncoming)
        ELSE IF checkIncoming(pos, diag1(flipIncoming), frame) # 0
             THEN diag1(flipIncoming)
        ELSE IF checkIncoming(pos, diag2(flipIncoming), frame) # 0
             THEN diag2(flipIncoming)
        ELSE <<0, 0>>

\* The stores of a SAND cell whose own movement is m0.
sandCellStores(pos, age, colorVar, m0) ==
    IF m0 # <<0, 0>>
       /\ ~hasHigherPriorityIncoming(Off(pos, m0[1], m0[2]),
                                     <<-m0[1], -m0[2]>>, params.frame)
    THEN [mat |-> EMPTY, meta |-> 0, vel |-> <<0, 0>>, move |-> m0]
    ELSE [mat |-> SAND, meta |-> packSandMeta(age + 1, colorVar),
          vel |-> <<0, 0>>, move |-> m0]

\* vec2f(incomingMove) / max(params.dt, 0.0001) with dt = 1/60.
moveVelocity(incomingMove) ==
    <<incomingMove[1] * DT_INV, incomingMove[2] * DT_INV>>

\* The stores of an EMPTY cell that accepts the neighbour at offset from.
emptyCellStores(pos, from) ==
    IF from = <<0, 0>>
    THEN [mat |-> EMPTY, meta |-> 0, vel |-> <<0, 0>>, move |-> <<0, 0>>]
    ELSE [mat |-> SAND,
          meta |-> packSandMeta(0, getSandColorVar(unpackIncoming(
                       checkIncoming(pos, from, params.frame)))),
          vel |-> moveVelocity(getIncomingMove(pos, from, params.frame)),
          move |-> <<0, 0>>]

\* Variant: ROCK is loose like SAND.
sandStepCell_LooseRock(pos) ==
    LET mat == getMaterial(pos)
        sandMetaValue == getSandMeta(pos)
    IN  IF mat = WALL
        THEN [mat |-> mat, meta |-> 0, vel |-> <<0, 0>>, move |-> <<0, 0>>]
        ELSE IF mat = SAND \/ mat = ROCK
        THEN sandCellStores(pos, getSandAge(sandMetaValue),
                            getSandColorVar(sandMetaValue),
                            getSandMovement(pos, getSandAge(sandMetaValue),
                                            hashAt(pos, params.frame)))
        ELSE IF mat = EMPTY
        THEN emptyCellStores(pos, acceptedOffset(pos, params.frame))
        ELSE [mat |-> mat, meta |-> 0, vel |-> <<0, 0>>, move |-> <<0, 0>>]

\* One invocation of main: the values stored for cell pos.
sandStepCell(pos) ==
    LET mat == getMaterial(pos)
        sandMetaValue == getSandMeta(pos)
    IN  IF mat = WALL \/ mat = ROCK
        THEN [mat |-> mat, meta |-> 0, vel |-> <<0, 0>>, move |-> <<0, 0>>]
        ELSE IF mat = SAND
        THEN sandCellStores(pos, getSandAge(sandMetaValue),
                            getSandColorVar(sandMetaValue),
                            getSandMovement(pos, getSandAge(sandMetaValue),
                                            hashAt(pos, params.frame)))
        ELSE IF mat = EMPTY
        THEN emptyCellStores(pos, acceptedOffset(pos, params.frame))
        ELSE [mat |-> mat, meta |-> 0, vel |-> <<0, 0>>, move |-> <<0, 0>>]

\* sandColorVar(pos): the colour byte a grain gets where it is spawned.
sandColorVarOf(pos) ==
    xorShr13(AddU32(MulU32(U32(pos[1]), U32(374761393)),
                    MulU32(U32(pos[2]), U32(668265263))))[2] % 256

ColorTable == Tabulate([i \in CellIds |-> sandColorVarOf(cellPos(i))])
sandColorVar(pos) == ColorTable[cellIndex(pos)]

\* Variant: the output bindings name the buffers the step reads.
sandOutIndex_InPlace == matIndex

\* sandGroups[mi][vi] binds materialTex[1 - mi], sandMetaTex[1 - mi] and
\* solidVelTex[1 - mi] as the outputs of the step.
sandOutIndex == 1 - matIndex

(***************************************************************************)
(* The dispatch of the automaton step: every cell's invocation reads the   *)
(* input snapshot only and stores its own cell of the output buffers, so   *)
(* the dispatch as a whole maps the snapshot to the other buffer.          *)
(***************************************************************************)
SandStepDispatch ==
    \E out \in {Tabulate([i \in CellIds |-> sandStepCell(cellPos(i))])} :
        /\ materialTex' = [materialTex EXCEPT
                              ![sandOutIndex] = [i \in CellIds |-> out[i].mat]]
        /\ sandMetaTex' = [sandMetaTex EXCEPT
                              ![sandOutIndex] = [i \in CellIds |-> out[i].meta]]
        /\ solidVelTex' = [solidVelTex EXCEPT
                              ![sandOutIndex] = [i \in CellIds |-> out[i].vel]]
        /\ sandMove' = [i \in CellIds |-> out[i].move]
        /\ matIndex' = 1 - matIndex

\* One invocation of the dispatch, for cell i: it reads the bound inputs as
\* they are now and stores its own texel of each output.
SandStepInvocation(i) ==
    \E st \in {sandStepCell(cellPos(i))} :
        /\ materialTex' = [materialTex EXCEPT ![sandOutIndex][i] = st.mat]
        /\ sandMetaTex' = [sandMetaTex EXCEPT ![sandOutIndex][i] = st.meta]
        /\ solidVelTex' = [solidVelTex EXCEPT ![sandOutIndex][i] = st.vel]
        /\ sandMove' = [sandMove EXCEPT ![i] = st.move]

(***************************************************************************)
(* Input snapshots.  The border cells are WALL, as buildMaterialState    *)
(* leaves them and as they stay (the brush never reaches them); the cells  *)
(* inside hold what the spawn pass can put there (WALL, SAND and ROCK       *)
(* requests).  Three families: every grid with at most MaxFilled WALL,     *)
(* SAND or ROCK cells inside, in each uniform                              *)
(* scene; every pile of fresh SAND three columns wide; and NumSamples      *)
(* dense grids whose materials, ages, colours, densities, velocities and   *)
(* parameters are drawn per cell from the hash.                            *)
(***************************************************************************)
\* The cells applyBrush can reach: all but the border.
Interior ==
    {i \in CellIds : /\ cellPos(i)[1] > 0 /\ cellPos(i)[1] < WIDTH - 1
                     /\ cellPos(i)[2] > 0 /\ cellPos(i)[2] < HEIGHT - 1}

buildMaterialState == [i \in CellIds |-> IF i \in Interior THEN EMPTY ELSE WALL]

FilledSets == {f \in SUBSET Interior : Cardinality(f) <= MaxFilled}

\* Piles lie in the three leftmost columns inside the border.
PileCells == {i \in Interior : cellPos(i)[1] <= 3}

pileMaterial(pile) ==
    [i \in CellIds |-> IF i \in pile THEN SAND ELSE buildMaterialState[i]]

sparseMaterial(g) ==
    [i \in CellIds |-> IF i \in DOMAIN g THEN g[i] ELSE buildMaterialState[i]]

\* Uniform scenes: frame, fluidity (percent), age of every grain, density
\* and u velocity of every cell, and whether each grain still carries the
\* colour of the top cell of its column inside the border (it fell) or of
\* its own cell.
Scenes ==
    {[frame |-> s[1], fluidity |-> s[2], age |-> s[3], density |-> s[4],
      velU |-> s[5], fell |-> s[6]] :
        s \in {<<0, 100, 0, 0, 0, TRUE>>, <<1, 100, 0, 0, 0, FALSE>>,
               <<0, 0, 11, 5, -3, FALSE>>, <<1, 50, 61, 5, 3, TRUE>>}}

\* Piles are fresh sand that has just fallen.
PileScenes == {sc \in Scenes : sc.age = 0 /\ sc.fell}

AgeList == <<0, 10, 11, 31, 61, 65535>>
FluidityList == <<0, 50, 100, 100>>
VelList == <<-3, 0, 3>>

\* One hash per cell and face of sample k; every field takes its own digits.
sampleHash(k) == Tabulate([i \in UFaceIds |-> hash(uPos(i), FrameCap + k)])

sampleMaterial(h) ==
    LET r == Mod100(h)
    IN  IF r < 45 THEN EMPTY
        ELSE IF r < 85 THEN SAND
        ELSE WALL

sampleAge(h) == AgeList[(h[1] % 6) + 1]
\* A grain carries the colour byte of the cell it was spawned in, here a
\* cell of the top row inside the border.
sampleColour(h) == sandColorVar(<<1 + ((h[1] \div 128) % (WIDTH - 2)), 1>>)
sampleDensity(h) == IF (h[1] \div 8) % 3 = 0 THEN 5 ELSE 0
sampleVelU(h) == VelList[((h[1] \div 32) % 3) + 1]

sampleSnapshot(k, sh) ==
    [material |-> [i \in CellIds |-> IF i \in Interior
                                     THEN sampleMaterial(sh[i]) ELSE WALL],
     age |-> [i \in CellIds |-> sampleAge(sh[i])],
     colour |-> [i \in CellIds |-> sampleColour(sh[i])],
     density |-> [i \in CellIds |-> sampleDensity(sh[i])],
     velU |-> [i \in UFaceIds |-> sampleVelU(sh[i])],
     frame |-> k % (MaxFrame + 1),
     fluidity |-> FluidityList[(k % 4) + 1]]

uniformSnapshot(material, sc) ==
    [material |-> material,
     age |-> [i \in CellIds |-> sc.age],
     colour |-> [i \in CellIds |->
                   IF sc.fell THEN sandColorVar(<<cellPos(i)[1], 1>>)
                   ELSE sandColorVar(cellPos(i))],
     density |-> [i \in CellIds |-> sc.density],
     velU |-> [i \in UFaceIds |-> sc.velU],
     frame |-> sc.frame,
     fluidity |-> sc.fluidity]

snapshotMeta(snap) ==
    [i \in CellIds |-> IF snap.material[i] = SAND
                       THEN packSandMeta(snap.age[i], snap.colour[i]) ELSE 0]

(***************************************************************************)
(* The grid-only version (main.js) and the sand-only version before it     *)
(* keep each cell in one r32uint texel: type, age and (grid-only) colour   *)
(* byte.  Here a texel is the record of its fields.                        *)
(***************************************************************************)
packCell(cellType, age, colorVar) ==
    [type |-> cellType, age |-> Min(age, MAX_AGE), color |-> colorVar]

\* createInitialData: a WALL floor along the bottom row.
createInitialData ==
    [c \in CellIds |-> IF cellPos(c)[2] = HEIGHT - 1
                       THEN packCell(G_WALL, 0, 0) ELSE packCell(EMPTY, 0, 0)]

\* gravity = 1.0 and temperature = 20 as main.js declares them.
InitDriver ==
    /\ worldParamsBuffer = [gravity |-> 100, temperature |-> 20]
    /\ simConfig = [pressureIterations |-> PRESSURE_ITERATIONS,
                    extrapolationIters |-> 0, steps |-> 1,
                    vorticity |-> FALSE, ball |-> FALSE]
    /\ loopAt = [step |-> 0, iter |-> 0, readIndex |-> 0, writeIndex |-> 1]
    /\ passLog = << >>
    /\ latest = [vel |-> -1, p |-> -1]

\* The buffers of the fluid solver as createBuffer and createTexture leave
\* them, with no particle alive.
InitFlip ==
    /\ swarm = [count |-> 0, pos |-> <<0, 0>>, vel |-> <<0, 0>>]
    /\ sums = << >>
    /\ normOut = << >>
    /\ velVTex = << >>
    /\ markerBuffer = << >>
    /\ pressureTex = << >>
    /\ pressureIndex = 0
    /\ simSettings = [airMixing |-> FALSE]
    /\ InitDriver

\* The state of that program with both textures holding data, the spawn
\* texture aside, before render has run.
InitSolo(data, sandFluidity) ==
    /\ textures = [i \in 0 .. 1 |-> data]
    /\ renderFrame = 0
    /\ simSpeed = 1
    /\ isPaused = FALSE
    /\ paramsBuffer = [x |-> 0, w |-> sandFluidity]
    /\ queue = << >>
    /\ evaluated = << >>
    /\ binInv = {}
    /\ InitFlip

(***************************************************************************)
(* StepSpec: one automaton step applied to an input snapshot.              *)
(***************************************************************************)
InitGrid(snap) ==
    /\ materialTex = [i \in 0 .. 1 |-> snap.material]
    /\ sandMetaTex = [i \in 0 .. 1 |-> snapshotMeta(snap)]
    /\ solidVelTex = [b \in 0 .. 1 |-> [i \in CellIds |-> <<0, 0>>]]
    /\ matIndex = 0
    /\ velIndex = 0
    /\ densityTex = snap.density
    /\ velUTex = [i \in 0 .. 1 |-> snap.velU]
    /\ params = [frame |-> snap.frame, sandFluidity |-> snap.fluidity]
    /\ sandMove = [i \in CellIds |-> <<0, 0>>]
    /\ invoked = {}
    /\ twin = << >>
    /\ steps = 0
    /\ paused = FALSE
    /\ frames = 0
    /\ lastPass = [read |-> 1, wrote |-> 0, vel |-> 0]

\* The particle buffers holding the given particles, before any pass of the
\* frame has run, and the spawn texture holding the given requests.
InitParticles(pos, mass, spawn) ==
    /\ particlePos = pos
    /\ particleVel = [p \in ParticleIds |-> <<0, 0>>]
    /\ particleMass = mass
    /\ cellCounts = [c \in CellIds |-> 0]
    /\ cellParticles = [c \in CellIds |-> << >>]
    /\ freeCount = 0
    /\ freeList = << >>
    /\ spawnTex = spawn
    /\ spawnInv = << >>
    /\ popped = << >>

InitFrom(snap) ==
    /\ InitGrid(snap)
    /\ InitSolo(createInitialData, 50)
    /\ InitParticles([p \in ParticleIds |-> 0], [p \in ParticleIds |-> 0],
                     [c \in CellIds |-> 0])
    /\ pc = "step"

StepInit ==
    \/ \E filled \in FilledSets, sc \in Scenes :
           \E g \in [filled -> {WALL, SAND, ROCK}] :
               InitFrom(uniformSnapshot(sparseMaterial(g), sc))
    \/ \E pile \in SUBSET PileCells, sc \in PileScenes :
           InitFrom(uniformSnapshot(pileMaterial(pile), sc))
    \/ \E k \in 1 .. NumSamples : InitFrom(sampleSnapshot(k, sampleHash(k)))

StepSand ==
    /\ pc = "step"
    /\ SandStepDispatch
    /\ pc' = "stepped"
    /\ steps' = steps + 1
    /\ UNCHANGED soloVars
    /\ UNCHANGED <<fluidVars, invoked, twin, particleVars, frameVars>>

StepNext == StepSand

StepSpec == StepInit /\ [][StepNext]_vars

(***************************************************************************)
(* Observers of a finished step: the snapshot it read is still in the      *)
(* buffer matIndex now points away from.                                   *)
(***************************************************************************)
stepIn == materialTex[1 - matIndex]
stepInMeta == sandMetaTex[1 - matIndex]
stepOut == materialTex[matIndex]
stepOutMeta == sandMetaTex[matIndex]
stepOutVel == solidVelTex[matIndex]

sandCount(tex) == Cardinality({i \in CellIds : tex[i] = SAND})

\* The SAND cells of the input whose computed movement targets cell d.
Targeting(d) ==
    {i \in CellIds : stepIn[i] = SAND /\ sandMove[i] # <<0, 0>>
                     /\ cellPos(i)[1] + sandMove[i][1] = cellPos(d)[1]
                     /\ cellPos(i)[2] + sandMove[i][2] = cellPos(d)[2]}

\* Some destination had two contenders in the step.
Contended == \E d \in CellIds : Cardinality(Targeting(d)) >= 2

\* C1: one application of the automaton step preserves the number of SAND
\* cells: for every input snapshot the output material buffer holds as many
\* SAND cells as the input buffer.
C1_SandCountPreserved ==
    pc = "stepped" => sandCount(stepOut) = sandCount(stepIn)

\* A step in which grains moved, one of them into a contended destination.
C1_Witness ==
    /\ pc = "stepped"
    /\ Contended
    /\ \E i \in CellIds : stepIn[i] = SAND /\ stepOut[i] = EMPTY
    /\ \E i \in Interior : stepIn[i] = WALL

\* The contenders for d that vacated their cell.
Vacated(d) == {s \in Targeting(d) : stepOut[s] = EMPTY}

carriesColourOf(d, s) ==
    stepOut[d] = SAND
    /\ getSandColorVar(stepOutMeta[d]) = getSandColorVar(stepInMeta[s])

\* C2: the source side and the destination side of the step agree.  For
\* every cell d that is EMPTY in the input and every SAND cell s whose
\* movement targets d, s is written EMPTY if and only if d is written SAND
\* carrying the colour byte of s and the displacement of s as its solid
\* velocity (d accepted s); at most one contender vacates per destination;
\* and d stays EMPTY when no cell targets it.
C2_DecisionsAgree ==
    pc = "stepped" =>
        \A d \in CellIds :
            stepIn[d] = EMPTY =>
                /\ \A s \in Targeting(d) :
                       stepOut[s] = EMPTY
                           <=> (carriesColourOf(d, s)
                                /\ stepOutVel[d] = moveVelocity(sandMove[s]))
                /\ Cardinality(Vacated(d)) <= 1
                /\ (Targeting(d) = {} => stepOut[d] = EMPTY)

\* Two grains with the same colour byte contended for one destination and
\* exactly one of them vacated.
C2_Witness ==
    /\ pc = "stepped"
    /\ \E d \in CellIds :
           /\ stepIn[d] = EMPTY
           /\ Cardinality(Vacated(d)) = 1
           /\ \E a, b \in Targeting(d) :
                  /\ a # b
                  /\ getSandColorVar(stepInMeta[a])
                         = getSandColorVar(stepInMeta[b])

\* C2 as stated: s is written EMPTY if and only if d is written SAND
\* carrying the colour byte of s (which a contender that stays put also
\* satisfies when it shares its colour byte with the accepted one).
C2_AsStated ==
    pc = "stepped" =>
        \A d \in CellIds :
            stepIn[d] = EMPTY =>
                /\ \A s \in Targeting(d) :
                       stepOut[s] = EMPTY <=> carriesColourOf(d, s)
                /\ Cardinality(Vacated(d)) <= 1
                /\ (Targeting(d) = {} => stepOut[d] = EMPTY)

(***************************************************************************)
(* SchedSpec: the invocations of a dispatch run one at a time in an order  *)
(* the scheduler picks (any of the first MaxReorder cells not yet run),    *)
(* for MaxSteps consecutive steps with the frame counter advancing.  It    *)
(* starts from dense grids and from sand poured over sand on the floor.    *)
(***************************************************************************)
\* Two cells of the top row and the two floor cells below them.
PourCells ==
    {i \in PileCells : cellPos(i)[1] # 2 /\ cellPos(i)[2] \in {1, HEIGHT - 2}}

SchedInit ==
    \/ \E k \in 1 .. NumSchedSamples :
           InitFrom(sampleSnapshot(k, sampleHash(k)))
    \/ \E pile \in SUBSET PourCells, sc \in PileScenes :
           InitFrom(uniformSnapshot(pileMaterial(pile), sc))

SchedBegin ==
    /\ pc = "step"
    /\ steps < MaxSteps
    /\ pc' = "invoking"
    /\ invoked' = {}
    /\ \E out \in {Tabulate([i \in CellIds |-> sandStepCell(cellPos(i))])} :
           twin' = [material |-> [i \in CellIds |-> out[i].mat],
                    meta |-> [i \in CellIds |-> out[i].meta],
                    vel |-> [i \in CellIds |-> out[i].vel]]
    /\ UNCHANGED soloVars
    /\ UNCHANGED <<gridVars, fluidVars, sandMove, steps, particleVars,
                   frameVars>>

SchedInvoke ==
    /\ pc = "invoking"
    /\ \E i \in CellIds \ invoked :
           /\ Cardinality({j \in CellIds \ invoked : j < i}) < MaxReorder
           /\ SandStepInvocation(i)
           /\ invoked' = invoked \cup {i}
    /\ UNCHANGED soloVars
    /\ UNCHANGED <<matIndex, fluidVars, twin, steps, pc, particleVars,
                   frameVars>>

SchedEnd ==
    /\ pc = "invoking"
    /\ invoked = CellIds
    /\ matIndex' = 1 - matIndex
    /\ params' = [params EXCEPT !.frame = params.frame + 1]
    /\ steps' = steps + 1
    /\ pc' = "step"
    /\ UNCHANGED soloVars
    /\ UNCHANGED <<materialTex, sandMetaTex, solidVelTex, velIndex,
                   densityTex, velUTex, sandMove, invoked, twin, particleVars,
                   frameVars>>

SchedNext == SchedBegin \/ SchedInvoke \/ SchedEnd

SchedSpec == SchedInit /\ [][SchedNext]_vars

\* C3: the automaton step is deterministic and independent of the order of
\* its invocations: whatever order the scheduler picks, every invocation
\* that has run stored, for material, sand metadata and solid velocity,
\* exactly what the same dispatch yields when all invocations read the
\* snapshot first; and after each of the consecutive steps the grid is that
\* result in every cell.
C3_ScheduleIndependent ==
    /\ pc = "invoking" =>
           \A i \in invoked :
               /\ materialTex[sandOutIndex][i] = twin.material[i]
               /\ sandMetaTex[sandOutIndex][i] = twin.meta[i]
               /\ solidVelTex[sandOutIndex][i] = twin.vel[i]
    /\ (pc = "step" /\ steps > 0) =>
           /\ materialTex[matIndex] = twin.material
           /\ sandMetaTex[matIndex] = twin.meta
           /\ solidVelTex[matIndex] = twin.vel

\* The last of the consecutive steps has finished; in it two grains
\* contended for a cell and one of them moved there.
C3_Witness ==
    /\ pc = "step"
    /\ steps = MaxSteps
    /\ \E d \in CellIds : Cardinality(Targeting(d)) >= 2 /\ Vacated(d) # {}

(***************************************************************************)
(* The particle store.  A particle is a slot of the particle buffers and   *)
(* is live while its mass is positive.  A position is kept as the cell     *)
(* that floor(pos) names; particle velocities and the grid velocities the  *)
(* fluid solve writes are not kept.  Atomic counters hand out slots in     *)
(* arrival order, which the scheduler chooses: ascending or descending     *)
(* invocation order here.                                                  *)
(***************************************************************************)
live == {p \in ParticleIds : particleMass[p] > 0}

RECURSIVE ascending(_)
ascending(S) ==
    IF S = {} THEN << >>
    ELSE LET least == CHOOSE p \in S : \A q \in S : p <= q
         IN  <<least>> \o ascending(S \ {least})

arrival(S, rev) ==
    LET up == ascending(S)
    IN  IF rev THEN [k \in 1 .. Len(up) |-> up[Len(up) + 1 - k]] ELSE up

\* clearParticleGrid, then binParticles: every live particle is counted into
\* its cell and the first MAX_CELL_PARTICLES arrivals are stored.
Bin ==
    /\ pc \in {"bin", "sepbin", "rebin"}
    /\ \E rev \in BOOLEAN :
         \E bins \in {Tabulate([c \in CellIds |->
                         arrival({p \in live : particlePos[p] = c}, rev)])} :
           /\ cellCounts' = [c \in CellIds |-> Len(bins[c])]
           /\ cellParticles' =
                 [c \in CellIds |->
                    SubSeq(bins[c], 1, Min(Len(bins[c]), MAX_CELL_PARTICLES))]
    /\ pc' = CASE pc = "bin" -> "free"
               [] pc = "sepbin" -> "separate"
               [] OTHER -> "deposit"
    /\ UNCHANGED soloVars
    /\ UNCHANGED <<gridVars, fluidVars, schedVars, frameVars, particlePos,
                   particleVel, particleMass, freeCount, freeList, spawnTex,
                   spawnInv, popped>>

\* clearFreeList, then buildFreeList: every dead slot takes the next entry.
BuildFreeList ==
    /\ pc = "free"
    /\ \E rev \in BOOLEAN : freeList' = arrival(ParticleIds \ live, rev)
    /\ freeCount' = Cardinality(ParticleIds \ live)
    /\ pc' = "spawn"
    /\ UNCHANGED soloVars
    /\ UNCHANGED <<gridVars, fluidVars, schedVars, frameVars, particlePos,
                   particleVel, particleMass, cellCounts, cellParticles,
                   spawnTex, spawnInv, popped>>

(***************************************************************************)
(* The spawn pass.  One invocation per cell reads the request, the input   *)
(* material and metadata, and stores the output cell.  Invocations that    *)
(* erase or place a solid kill the particles binned in their cell; the     *)
(* killed slots were live at the bin and the slots of the free list were   *)
(* dead, no pass in between writes a mass, so these stores commute with    *)
(* the allocations and are taken first.  Invocations that create particles *)
(* then run popFreeIndex interleaved, one atomic operation at a time.      *)
(***************************************************************************)
clearCellParticles(c) ==
    {cellParticles[c][k] : k \in 1 .. Min(cellCounts[c], MAX_CELL_PARTICLES)}

clearedCells_Always == {c \in CellIds : spawnTex[c] # WATER}

clearedCells == {c \in CellIds : spawnTex[c] \in {ERASER, WALL, SAND, ROCK}}

spawnOutIndex_InPlace == matIndex

spawnOutIndex == 1 - matIndex

\* The WATER branch: particles the invocation of cell c sets out to create.
toSpawn(c) ==
    IF spawnTex[c] = WATER /\ ~isSolid(materialIn[c])
    THEN PARTICLES_PER_CELL - Min(cellCounts[c], PARTICLES_PER_CELL)
    ELSE 0

SpawnBegin ==
    /\ pc = "spawn"
    /\ materialTex' =
          [materialTex EXCEPT ![spawnOutIndex] =
              [c \in CellIds |->
                 IF spawnTex[c] = ERASER THEN EMPTY
                 ELSE IF spawnTex[c] \in {WALL, SAND, ROCK} THEN spawnTex[c]
                 ELSE materialIn[c]]]
    /\ sandMetaTex' =
          [sandMetaTex EXCEPT ![spawnOutIndex] =
              [c \in CellIds |->
                 IF spawnTex[c] = SAND
                 THEN packSandMeta(0, sandColorVar(cellPos(c)))
                 ELSE IF spawnTex[c] \in {ERASER, WALL, ROCK} THEN 0
                 ELSE sandMetaIn[c]]]
    /\ particleMass' =
          [p \in ParticleIds |->
             IF \E c \in clearedCells : p \in clearCellParticles(c)
             THEN 0 ELSE particleMass[p]]
    /\ particleVel' =
          [p \in ParticleIds |->
             IF \E c \in clearedCells : p \in clearCellParticles(c)
             THEN <<0, 0>> ELSE particleVel[p]]
    /\ spawnInv' =
          [c \in {d \in CellIds : toSpawn(d) > 0} |->
             [toSpawn |-> toSpawn(c), i |-> 0, old |-> 0, at |-> "load"]]
    /\ popped' = << >>
    /\ pc' = "popping"
    /\ UNCHANGED soloVars
    /\ UNCHANGED <<solidVelTex, matIndex, fluidVars, schedVars, frameVars,
                   particlePos, cellCounts, cellParticles, freeCount,
                   freeList, spawnTex>>

\* popFreeIndex, entry: old = atomicLoad(&freeCount).
PopLoad ==
    /\ pc = "popping"
    /\ \E c \in DOMAIN spawnInv :
         /\ spawnInv[c].at = "load"
         /\ spawnInv' = [spawnInv EXCEPT ![c].old = freeCount, ![c].at = "cas"]
    /\ UNCHANGED soloVars
    /\ UNCHANGED <<gridVars, fluidVars, schedVars, frameVars, pc, particlePos,
                   particleVel, particleMass, cellCounts, cellParticles,
                   freeCount, freeList, spawnTex, popped>>

exchanged_Unchecked(old) == TRUE

\* atomicCompareExchangeWeak exchanges only if the counter still holds old.
exchanged(old) == freeCount = old

popExhausted_Never(old) == FALSE

popExhausted(old) == old = 0

\* freeList[slot]: a read past the list yields an arbitrary index.
freeEntry(slot) ==
    IF slot + 1 \in DOMAIN freeList THEN {freeList[slot + 1]} ELSE ParticleIds

\* popFreeIndex, one turn of the loop, and on success the stores of the
\* new particle.  The weak exchange may also fail spuriously.  The counter
\* is unsigned: 0 - 1 wraps to 2^32 - 1, which is written -1 here.
PopIterate ==
    /\ pc = "popping"
    /\ \E c \in DOMAIN spawnInv, spurious \in BOOLEAN :
         /\ spawnInv[c].at = "cas"
         /\ IF popExhausted(spawnInv[c].old)
            THEN /\ spawnInv' = [spawnInv EXCEPT ![c].at = "denied"]
                 /\ UNCHANGED <<freeCount, particlePos, particleVel,
                                particleMass, popped>>
            ELSE IF exchanged(spawnInv[c].old) /\ ~spurious
            THEN \E idx \in freeEntry(spawnInv[c].old - 1) :
                     /\ freeCount' = spawnInv[c].old - 1
                     /\ particlePos' = [particlePos EXCEPT ![idx] = c]
                     /\ particleVel' = [particleVel EXCEPT ![idx] = <<0, 0>>]
                     /\ particleMass' = [particleMass EXCEPT ![idx] = 1]
                     /\ popped' = Append(popped, idx)
                     /\ spawnInv' =
                           [spawnInv EXCEPT
                              ![c].i = @ + 1,
                              ![c].at = IF spawnInv[c].i + 1 < spawnInv[c].toSpawn
                                        THEN "load" ELSE "done"]
            ELSE /\ spawnInv' = [spawnInv EXCEPT ![c].old = freeCount]
                 /\ UNCHANGED <<freeCount, particlePos, particleVel,
                                particleMass, popped>>
    /\ UNCHANGED soloVars
    /\ UNCHANGED <<gridVars, fluidVars, schedVars, frameVars, pc, cellCounts,
                   cellParticles, freeList, spawnTex>>

\* Every invocation has returned; the driver swaps the material index.
SpawnEnd ==
    /\ pc = "popping"
    /\ \A c \in DOMAIN spawnInv : spawnInv[c].at \in {"done", "denied"}
    /\ matIndex' = 1 - matIndex
    /\ lastPass' = [lastPass EXCEPT !.read = matIndex, !.wrote = spawnOutIndex]
    /\ pc' = "spawned"
    /\ UNCHANGED soloVars
    /\ UNCHANGED <<materialTex, sandMetaTex, solidVelTex, fluidVars, schedVars,
                   particleVars, paused, frames>>

(***************************************************************************)
(* SpawnSpec: bin, free list and spawn pass, from grids whose top row      *)
(* inside the border is EMPTY, WALL or aged SAND, with a crowd of live     *)
(* particles in one EMPTY cell (none, one, as many as the bin stores, one  *)
(* more, all slots but one, all slots) and requests of every kind on up    *)
(* to MaxRequests cells of that row.                                       *)
(***************************************************************************)
TopRow == {i \in Interior : cellPos(i)[2] = 1}

SpawnInit ==
    \E m \in {EMPTY, WALL, SAND}, sc \in {s \in Scenes : s.age = 11},
       n \in {0, 1, MAX_CELL_PARTICLES, MAX_CELL_PARTICLES + 1,
              MAX_PARTICLES - 1, MAX_PARTICLES},
       R \in {r \in SUBSET TopRow : Cardinality(r) <= MaxRequests} :
      \E req \in [R -> {ERASER, WALL, SAND, WATER}] :
        /\ InitGrid(uniformSnapshot(sparseMaterial([i \in TopRow |-> m]), sc))
        /\ InitParticles(
              [p \in ParticleIds |->
                 cellIndex(<<1, IF m = EMPTY THEN 1 ELSE 2>>)],
              [p \in ParticleIds |-> IF p < n THEN 1 ELSE 0],
              [c \in CellIds |-> IF c \in R THEN req[c] ELSE 0])
        /\ InitSolo(createInitialData, 50)
        /\ pc = "bin"

SpawnNext ==
    \/ Bin
    \/ BuildFreeList
    \/ SpawnBegin
    \/ PopLoad
    \/ PopIterate
    \/ SpawnEnd

SpawnSpec == SpawnInit /\ [][SpawnNext]_vars

(***************************************************************************)
(* The frame loop.  Between frames the page handles input: the pause key   *)
(* and the brush, which records requests in spawnData.  frame() uploads    *)
(* spawnData and clears it, then encodes the passes in order.              *)
(***************************************************************************)
\* The brush of radius 1 at pointer cell at, painting mat.
applyBrush(at, mat, radius) ==
    [c \in CellIds |->
       IF /\ c \in Interior
          /\ (cellPos(c)[1] - at[1]) * (cellPos(c)[1] - at[1])
               + (cellPos(c)[2] - at[2]) * (cellPos(c)[2] - at[2])
                 <= radius * radius
       THEN mat ELSE 0]

firstPass_AlwaysStep(halted) == "sand"

\* if (!state.paused): the automaton step and the eviction open the frame
\* unless it is paused.
firstPass(halted) == IF halted THEN "bin" ELSE "sand"

FrameStart ==
    /\ pc = "input"
    /\ frames < MaxFrames
    /\ \E toggle \in BOOLEAN, mat \in {0, SAND, WATER, WALL, ERASER},
          at \in {<<2, 0>>} :
         /\ paused' = (paused # toggle)
         /\ spawnTex' = applyBrush(at, mat, 1)
         /\ pc' = firstPass(paused # toggle)
    /\ frames' = frames + 1
    /\ UNCHANGED soloVars
    /\ UNCHANGED <<gridVars, fluidVars, schedVars, lastPass, particlePos,
                   particleVel, particleMass, cellCounts, cellParticles,
                   freeCount, freeList, spawnInv, popped>>

FrameSandStep ==
    /\ pc = "sand"
    /\ SandStepDispatch
    /\ lastPass' = [read |-> matIndex, wrote |-> sandOutIndex,
                    vel |-> sandOutIndex]
    /\ steps' = steps + 1
    /\ pc' = "evict"
    /\ UNCHANGED soloVars
    /\ UNCHANGED <<fluidVars, invoked, twin, particleVars, paused, frames>>

\* evictParticles: a live particle in a solid cell goes to the centre of the
\* nearest non-solid cell of its 3 x 3 neighbourhood, the first found in
\* scan order among equals, and stays where it is if there is none.  A
\* relocated particle loses its velocity.
Evict ==
    /\ pc = "evict"
    /\ particlePos' =
          [p \in ParticleIds |->
             LET c == particlePos[p]
                 near(k) == Off(cellPos(c), (k % 3) - 1, (k \div 3) - 1)
                 dist(k) == ((k % 3) - 1) * ((k % 3) - 1)
                              + ((k \div 3) - 1) * ((k \div 3) - 1)
                 open == {k \in 0 .. 8 : /\ inBounds(near(k))
                                         /\ ~isSolid(getMaterial(near(k)))}
             IN  IF particleMass[p] > 0 /\ isSolid(materialIn[c]) /\ open # {}
                 THEN cellIndex(near(
                         CHOOSE k \in open :
                            \A j \in open :
                               dist(k) < dist(j)
                                 \/ (dist(k) = dist(j) /\ k <= j)))
                 ELSE c]
    /\ particleVel' =
          [p \in ParticleIds |->
             LET c == particlePos[p]
                 found == \E k \in 0 .. 8 :
                             LET n == Off(cellPos(c), (k % 3) - 1, (k \div 3) - 1)
                             IN  inBounds(n) /\ ~isSolid(getMaterial(n))
             IN  IF particleMass[p] > 0 /\ isSolid(materialIn[c]) /\ found
                 THEN <<0, 0>> ELSE particleVel[p]]
    /\ pc' = "bin"
    /\ UNCHANGED soloVars
    /\ UNCHANGED <<gridVars, fluidVars, schedVars, frameVars, particleMass,
                   cellCounts, cellParticles, freeCount, freeList, spawnTex,
                   spawnInv, popped>>

\* The cell a particle in cell c reaches with velocity v: the position is
\* clamped to the grid.
advected(c, v) ==
    <<Max(0, Min(WIDTH - 1, cellPos(c)[1] + v[1])),
      Max(0, Min(HEIGHT - 1, cellPos(c)[2] + v[2]))>>

\* state.frame++, updateParams, integrateParticles: gravity is added to the
\* velocity (a particle at rest stays in its cell or starts to fall: the
\* position within the cell, which decides, is not kept), the particle
\* advances by its velocity, and if that takes it into a solid cell it is
\* put back and its velocity set to zero.
Integrate ==
    /\ pc = "spawned"
    /\ ~paused
    /\ params' = [params EXCEPT !.frame = @ + 1]
    /\ \E g \in {<<0, 0>>, <<0, 1>>} :
         \E vel \in {[p \in ParticleIds |->
                        IF particleVel[p] = <<0, 0>> THEN g
                        ELSE particleVel[p]]} :
           /\ particlePos' =
                 [p \in ParticleIds |->
                    IF /\ particleMass[p] > 0
                       /\ ~isSolid(getMaterial(advected(particlePos[p], vel[p])))
                    THEN cellIndex(advected(particlePos[p], vel[p]))
                    ELSE particlePos[p]]
           /\ particleVel' =
                 [p \in ParticleIds |->
                    IF particleMass[p] <= 0 THEN particleVel[p]
                    ELSE IF isSolid(getMaterial(advected(particlePos[p], vel[p])))
                    THEN <<0, 0>> ELSE vel[p]]
    /\ pc' = "sepbin"
    /\ UNCHANGED soloVars
    /\ UNCHANGED <<gridVars, velIndex, densityTex, velUTex, schedVars,
                   frameVars, particleMass, cellCounts, cellParticles,
                   freeCount, freeList, spawnTex, spawnInv, popped>>

\* separateParticles: particles binned together push each other apart; a
\* pushed particle takes its new position only if that cell is not solid.
\* At most one particle changes cell here.
Separate ==
    /\ pc = "separate"
    /\ \E p \in live \cup {-1},
          d \in {<<1, 0>>, <<-1, 0>>, <<0, 1>>, <<0, -1>>} :
         particlePos' =
            IF /\ p # -1
               /\ cellCounts[particlePos[p]] >= 2
               /\ ~isSolid(getMaterial(Off(cellPos(particlePos[p]), d[1], d[2])))
            THEN [particlePos EXCEPT
                    ![p] = cellIndex(Off(cellPos(particlePos[p]), d[1], d[2]))]
            ELSE particlePos
    /\ pc' = "rebin"
    /\ UNCHANGED soloVars
    /\ UNCHANGED <<gridVars, fluidVars, schedVars, frameVars, particleVel,
                   particleMass,
                   cellCounts, cellParticles, freeCount, freeList, spawnTex,
                   spawnInv, popped>>

\* clearGrid, depositParticles, normalizeGrid: the density of a cell is the
\* mass of the particles in it (the spread of a particle's mass over the
\* neighbouring cells is not kept).
Deposit ==
    /\ pc = "deposit"
    /\ densityTex' =
          [c \in CellIds |->
             (100 * Cardinality({p \in live : particlePos[p] = c}))
                \div PARTICLES_PER_CELL]
    /\ pc' = "fluid"
    /\ UNCHANGED soloVars
    /\ UNCHANGED <<gridVars, velIndex, velUTex, params, schedVars, frameVars,
                   particleVars>>

\* The solid velocities bound to maskSolidVel and pressure.
solidVelIn == solidVelTex[matIndex]

\* maskSolidVel, the pressure iterations, applyPressure and maskSolidVel
\* again: they read materialTex[matIndex] and solidVelTex[matIndex] and
\* leave velIndex at 1.
Pressure ==
    /\ pc = "fluid"
    /\ velIndex' = 1
    /\ pc' = "transfer"
    /\ UNCHANGED soloVars
    /\ UNCHANGED <<gridVars, densityTex, velUTex, params, schedVars, frameVars,
                   particleVars>>

\* gridToParticles writes the velocity of every live particle, taken from
\* the grid velocities: at rest, falling or drifting right, the same for all
\* particles here.
Transfer ==
    /\ pc = "transfer"
    /\ \E d \in {<<0, 0>>, <<0, 1>>, <<1, 0>>} :
         particleVel' =
            [p \in ParticleIds |->
               IF particleMass[p] > 0 THEN d ELSE particleVel[p]]
    /\ pc' = "render"
    /\ UNCHANGED soloVars
    /\ UNCHANGED <<gridVars, fluidVars, schedVars, frameVars, particlePos,
                   particleMass, cellCounts, cellParticles, freeCount,
                   freeList, spawnTex, spawnInv, popped>>

\* The render pass reads materialTex[matIndex]; the frame ends.
Render ==
    /\ pc = IF paused THEN "spawned" ELSE "render"
    /\ pc' = "input"
    /\ UNCHANGED soloVars
    /\ UNCHANGED <<gridVars, fluidVars, schedVars, frameVars, particleVars>>

\* The state clearSimulation leaves: walls on the border, no particle, no
\* pending request.
FrameInit ==
    /\ InitGrid(uniformSnapshot(buildMaterialState,
                   [frame |-> 0, fluidity |-> 50, age |-> 0, density |-> 0,
                    velU |-> 0, fell |-> FALSE]))
    /\ InitParticles([p \in ParticleIds |-> 0], [p \in ParticleIds |-> 0],
                     [c \in CellIds |-> 0])
    /\ InitSolo(createInitialData, 50)
    /\ pc = "input"

FrameNext ==
    \/ FrameStart
    \/ FrameSandStep
    \/ Evict
    \/ Bin
    \/ BuildFreeList
    \/ SpawnBegin
    \/ PopLoad
    \/ PopIterate
    \/ SpawnEnd
    \/ Integrate
    \/ Separate
    \/ Deposit
    \/ Pressure
    \/ Transfer
    \/ Render

FrameSpec == FrameInit /\ [][FrameNext]_vars

(***************************************************************************)
(* Observers of the spawn pass.                                            *)
(***************************************************************************)
\* The particles lying in cell c.
liveIn(c) == {p \in live : particlePos[p] = c}

\* The slots the spawn pass of this frame kills.
killed == UNION {clearCellParticles(c) : c \in clearedCells}

\* Particles the WATER invocations of this pass set out to create.
requested ==
    UNION {{<<c, k>> : k \in 1 .. spawnInv[c].toSpawn} : c \in DOMAIN spawnInv}

\* C4: the set of live particles changes only in the spawn pass, and only
\* if the spawn texture holds a request: every other pass, and the spawn
\* pass of a frame whose spawn texture is all zero, leaves every particle's
\* mass as it is.
C4_LiveSetChangesOnlyInSpawn ==
    [][(pc \notin {"spawn", "popping"} \/ \A c \in CellIds : spawnTex[c] = 0)
          => particleMass' = particleMass]_vars

\* A frame without requests has run all its passes, particles have changed
\* cell in it, and they are all still there.
C4_Witness ==
    /\ pc = "render"
    /\ \A c \in CellIds : spawnTex[c] = 0
    /\ Cardinality(live) >= 2
    /\ \E p \in live : particlePos[p] \notin TopRow

\* C5: under every interleaving of the spawn invocations, the slots
\* popFreeIndex hands out in one pass are pairwise different and each was
\* dead when the free list was built, so no live particle is overwritten:
\* the live particles are those live at the build, less the killed ones,
\* plus one per slot handed out.
C5_PopFreeIndexUnique ==
    pc \in {"popping", "spawned"} =>
        /\ \A a, b \in 1 .. Len(popped) : a # b => popped[a] # popped[b]
        /\ \A a \in 1 .. Len(popped) :
              \E k \in 1 .. Len(freeList) : freeList[k] = popped[a]
        /\ Cardinality(live) =
              (MAX_PARTICLES - Len(freeList)) - Cardinality(killed)
                 + Len(popped)

\* Two invocations raced for the counter: one loaded it, the other took a
\* slot, the first one's exchange failed and it then took the next slot.
C5_Witness ==
    /\ pc = "spawned"
    /\ Len(popped) >= 2
    /\ \E c \in DOMAIN spawnInv :
          spawnInv[c].at = "done" /\ spawnInv[c].old < Len(freeList)
                /\ particlePos[popped[Len(popped)]] = c

\* C6: the counter never leaves 0 .. length of the free list: it is the
\* number of entries not yet handed out; an invocation is denied only
\* with the counter at 0; when the pass ends as many particles have been
\* created as were requested or as there were free slots, whichever is
\* less; and the live particles never exceed MAX_PARTICLES.
C6_ExhaustionTruncates ==
    pc \in {"popping", "spawned"} =>
        /\ freeCount >= 0
        /\ freeCount = Len(freeList) - Len(popped)
        /\ \A c \in DOMAIN spawnInv :
              spawnInv[c].at = "denied" => spawnInv[c].old = 0 /\ freeCount = 0
        /\ pc = "spawned" =>
              Len(popped) = Min(Cardinality(requested), Len(freeList))
        /\ Cardinality(live) <= MAX_PARTICLES

\* More particles were requested than there were free slots: the free
\* slots were all used and a request was dropped.
C6_Witness ==
    /\ pc = "spawned"
    /\ Len(freeList) >= 1
    /\ Cardinality(requested) > Len(freeList)
    /\ Len(popped) = Len(freeList)
    /\ \E c \in DOMAIN spawnInv : spawnInv[c].at = "denied"

\* C7 as stated: after the spawn pass every erased cell is EMPTY with
\* metadata 0 and holds no live particle, and no live particle lies in a
\* cell overwritten by a solid material, whatever number of particles the
\* cell held.
C7_AsStated ==
    pc = "spawned" =>
        \A c \in CellIds :
           /\ spawnTex[c] = ERASER =>
                 materialIn[c] = EMPTY /\ sandMetaIn[c] = 0 /\ liveIn(c) = {}
           /\ spawnTex[c] \in {WALL, SAND, ROCK} => liveIn(c) = {}

\* C8 as stated: a WALL, SAND or ROCK request leaves a cell that is not
\* EMPTY as it was, material and metadata, and a WATER request creates
\* particles only in a cell that is not solid.
C8_AsStated ==
    pc = "spawned" =>
        /\ \A c \in CellIds :
              spawnTex[c] \in {WALL, SAND, ROCK}
                    /\ materialTex[lastPass.read][c] # EMPTY
                 => /\ materialIn[c] = materialTex[lastPass.read][c]
                    /\ sandMetaIn[c] = sandMetaTex[lastPass.read][c]
        /\ \A a \in 1 .. Len(popped) :
              /\ spawnTex[particlePos[popped[a]]] = WATER
              /\ ~isSolid(materialIn[particlePos[popped[a]]])

\* C9 as stated: the solid velocities bound to the mask-at-solids and
\* pressure passes of a frame are the ones the automaton step of that
\* frame wrote.
C9_AsStated ==
    pc = "fluid" => solidVelIn = solidVelTex[lastPass.vel]

\* C10: every pass that writes material and metadata reads the buffer the
\* pass before it wrote and writes the other one, and materialTex[matIndex],
\* which every other pass and the render read, is the buffer written last.
C10_MaterialDoubleBuffered ==
    /\ [](matIndex = lastPass.wrote /\ lastPass.read # lastPass.wrote)
    /\ [][lastPass' # lastPass => lastPass'.read = lastPass.wrote]_vars

\* A paused frame (spawn only) has been followed by an unpaused one (step
\* and spawn): the render reads buffer 1, where the sand painted in the
\* first frame has fallen by one cell.
C10_Witness ==
    /\ pc = "render"
    /\ steps = 1
    /\ frames >= 2
    /\ matIndex = 1
    /\ \E c \in Interior \ TopRow : materialIn[c] = SAND

\* C11: a paused frame dispatches no automaton step, no eviction and no
\* fluid substep; it still rebins the particles (the counts it leaves are
\* those of the live particles cell by cell) and renders; and with no
\* pending spawn request no step of it changes the authoritative material,
\* the sand metadata, any particle's position, velocity or mass, or the
\* frame counter.
C11_PausedFrameOnlyRebins ==
    /\ [](paused =>
            /\ pc \in {"input", "bin", "free", "spawn", "popping", "spawned"}
            /\ pc = "spawned" /\ (\A c \in CellIds : spawnTex[c] = 0)
                  => \A c \in CellIds : cellCounts[c] = Cardinality(liveIn(c)))
    /\ [][paused' /\ (\A c \in CellIds : spawnTex'[c] = 0)
            => /\ materialIn' = materialIn
               /\ sandMetaIn' = sandMetaIn
               /\ particlePos' = particlePos
               /\ particleVel' = particleVel
               /\ particleMass' = particleMass
               /\ params' = params]_vars

\* A paused frame without requests has ended (its render has run) on a grid
\* holding sand and a moving particle that is binned where it lies.
C11_Witness ==
    /\ pc = "input"
    /\ paused
    /\ frames >= 1
    /\ \A c \in CellIds : spawnTex[c] = 0
    /\ \E c \in Interior : materialIn[c] = SAND
    /\ \E p \in live : /\ particleVel[p] # <<0, 0>>
                        /\ cellCounts[particlePos[p]] >= 1

\* C13: the metadata rule of the step.  A grain that stays in place, one
\* that yielded its move included, leaves with its age incremented by one,
\* saturating at 65535 and never smaller than before, and with its colour
\* byte; a grain that moved arrives in the cell it targeted with age 0 and
\* its colour byte; and every cell that received a grain holds age 0 and
\* the colour byte of a grain that vacated towards it.
C13_MetadataRule ==
    pc = "stepped" =>
        \A c \in CellIds :
            /\ stepIn[c] = SAND /\ stepOut[c] = SAND =>
                   /\ getSandAge(stepOutMeta[c])
                          = Min(getSandAge(stepInMeta[c]) + 1, MAX_AGE)
                   /\ getSandAge(stepOutMeta[c]) >= getSandAge(stepInMeta[c])
                   /\ getSandColorVar(stepOutMeta[c])
                          = getSandColorVar(stepInMeta[c])
            /\ stepIn[c] = SAND /\ stepOut[c] # SAND =>
                   \E d \in CellIds :
                       /\ c \in Vacated(d)
                       /\ stepIn[d] = EMPTY
                       /\ carriesColourOf(d, c)
                       /\ getSandAge(stepOutMeta[d]) = 0
            /\ stepIn[c] # SAND /\ stepOut[c] = SAND =>
                   /\ getSandAge(stepOutMeta[c]) = 0
                   /\ \E s \in Vacated(c) : carriesColourOf(c, s)

\* A step in which a grain of age 65535 stayed, a grain yielded its move,
\* and a grain that had aged moved.
C13_Witness ==
    /\ pc = "stepped"
    /\ \E c \in CellIds :
           /\ stepIn[c] = SAND /\ stepOut[c] = SAND
           /\ getSandAge(stepInMeta[c]) = MAX_AGE
    /\ \E c \in CellIds :
           /\ stepIn[c] = SAND /\ stepOut[c] = SAND
           /\ sandMove[c] # <<0, 0>>
    /\ \E c \in CellIds :
           /\ stepIn[c] = SAND /\ stepOut[c] = EMPTY
           /\ getSandAge(stepInMeta[c]) > 0


\* C14: the step never changes a WALL or ROCK cell: whatever its
\* neighbourhood and the frame counter, the cell is written with the same
\* material, metadata 0 and solid velocity 0.
C14_SolidsCopied ==
    pc = "stepped" =>
        \A c \in CellIds :
            stepIn[c] \in {WALL, ROCK} =>
                /\ stepOut[c] = stepIn[c]
                /\ stepOutMeta[c] = 0
                /\ stepOutVel[c] = <<0, 0>>

\* A step over a grid with a ROCK inside the border, in which the grain
\* beside the ROCK moved away.
C14_Witness ==
    /\ pc = "stepped"
    /\ \E c, d \in Interior :
           /\ stepIn[c] = ROCK /\ stepOut[c] = ROCK
           /\ d \in {c - 1, c + 1}
           /\ stepIn[d] = SAND /\ stepOut[d] = EMPTY


(***************************************************************************)
(* PourSpec: the frame loop, never paused, while water is poured in at the *)
(* top with the smallest brush, frame after frame, until the whole inside  *)
(* of the container is painted WALL with one stroke of a brush of radius   *)
(* 2 in the last frame but one; the last frame has no input.               *)
(***************************************************************************)
PourStart ==
    /\ pc = "input"
    /\ frames < MaxPourFrames
    /\ spawnTex' = IF frames + 2 < MaxPourFrames
                   THEN applyBrush(<<2, 0>>, WATER, 1)
                   ELSE IF frames + 2 = MaxPourFrames
                   THEN applyBrush(<<2, 2>>, WALL, 2)
                   ELSE applyBrush(<<2, 2>>, 0, 1)
    /\ pc' = firstPass(paused)
    /\ frames' = frames + 1
    /\ UNCHANGED soloVars
    /\ UNCHANGED <<gridVars, fluidVars, schedVars, lastPass, paused,
                   particlePos, particleVel, particleMass, cellCounts,
                   cellParticles, freeCount, freeList, spawnInv, popped>>

PourNext ==
    \/ PourStart
    \/ FrameSandStep
    \/ Evict
    \/ Bin
    \/ BuildFreeList
    \/ SpawnBegin
    \/ PopLoad
    \/ PopIterate
    \/ SpawnEnd
    \/ Integrate
    \/ Separate
    \/ Deposit
    \/ Pressure
    \/ Transfer
    \/ Render

PourSpec == FrameInit /\ [][PourNext]_vars

\* C15 as stated: after the eviction pass no live particle remains inside
\* a solid cell.
C15_AsStated ==
    pc = "bin" /\ ~paused =>
        \A p \in live : ~isSolid(materialIn[particlePos[p]])


(***************************************************************************)
(* The grid-only automaton (main.js), for the types EMPTY, SAND and WALL:  *)
(* the brush selects no other material, so no interaction or temperature   *)
(* rule applies.  A compute pass reads one texture, the params uniform     *)
(* and the spawn texture and writes every texel of the other texture.      *)
(***************************************************************************)
\* getRawCell: reads outside the grid return WALL.
getRawCell(tex, pos) ==
    IF inBounds(pos) THEN tex[cellIndex(pos)] ELSE packCell(G_WALL, 0, 0)

\* getSandMovement of main.js; getCell and the fluidity are passed in.
gridSandMovement(tex, fluidity, pos, rng) ==
    LET getCell(dx, dy) == getRawCell(tex, Off(pos, dx, dy)).type
        below == getCell(0, 1)
        belowLeft == getCell(-1, 1)
        belowRight == getCell(1, 1)
        left == getCell(-1, 0)
        right == getCell(1, 0)
        canFallLeft == (belowLeft = EMPTY /\ left = EMPTY)
                       /\ ~(left = G_SAND /\ belowLeft = EMPTY)
        canFallRight == (belowRight = EMPTY /\ right = EMPTY)
                        /\ ~(right = G_SAND /\ belowRight = EMPTY)
        wantLeft == (pos[1] % 2) = 0
        currentAge == getRawCell(tex, pos).age
        settleRoll == Mod100(rng)
        baseChance == IF currentAge > 60 THEN 2
                      ELSE IF currentAge > 30 THEN 12
                      ELSE IF currentAge > 10 THEN 30
                      ELSE 60
        settleChance == Min((baseChance * fluidity) \div 50, 95)
        left2 == getCell(-2, 0)
        right2 == getCell(2, 0)
        belowLeft2 == getCell(-2, 1)
        belowRight2 == getCell(2, 1)
        canSlideLeft ==
            (left = EMPTY
             /\ (belowLeft = EMPTY \/ (left2 = EMPTY /\ belowLeft2 = EMPTY)))
            /\ ~(left2 = G_SAND /\ belowLeft = EMPTY)
        canSlideRight ==
            (right = EMPTY
             /\ (belowRight = EMPTY \/ (right2 = EMPTY /\ belowRight2 = EMPTY)))
            /\ ~(right2 = G_SAND /\ belowRight = EMPTY)
    IN  IF below = EMPTY THEN <<0, 1>>
        ELSE IF canFallLeft /\ canFallRight
             THEN (IF wantLeft THEN <<-1, 1>> ELSE <<1, 1>>)
        ELSE IF canFallLeft THEN <<-1, 1>>
        ELSE IF canFallRight THEN <<1, 1>>
        ELSE IF settleRoll >= settleChance THEN <<0, 0>>
        ELSE IF canSlideLeft /\ canSlideRight
             THEN (IF wantLeft THEN <<-1, 0>> ELSE <<1, 0>>)
        ELSE IF canSlideLeft THEN <<-1, 0>>
        ELSE IF canSlideRight THEN <<1, 0>>
        ELSE <<0, 0>>

\* The neighbours of a destination in the order main and
\* hasHigherPriorityIncoming consider them.
incomingOrder(pos, frame) ==
    IF ((pos[1] + pos[2] + frame) % 2) = 1
    THEN << <<0, -1>>, <<1, 0>>, <<-1, 0>>, <<1, -1>>, <<-1, -1>>,
            <<0, 1>>, <<1, 1>>, <<-1, 1>> >>
    ELSE << <<0, -1>>, <<-1, 0>>, <<1, 0>>, <<-1, -1>>, <<1, -1>>,
            <<0, 1>>, <<-1, 1>>, <<1, 1>> >>

\* Variant: a request is served before the neighbours are looked at.
gridStepCell_SpawnFirst(tex, spawn, frame, fluidity, pos) ==
    LET rawCell == getRawCell(tex, pos)
        current == rawCell.type
        spawnRequest == spawn[cellIndex(pos)]
        movementOf(p) ==
            IF getRawCell(tex, p).type = G_SAND
            THEN gridSandMovement(tex, fluidity, p, hashAt(p, frame))
            ELSE <<0, 0>>
        \* checkIncoming(dest, fromOffset, frame) != 0u
        incoming(dest, fromOffset) ==
            LET fromPos == Off(dest, fromOffset[1], fromOffset[2])
            IN  /\ getRawCell(tex, fromPos).type = G_SAND
                /\ Off(fromPos, movementOf(fromPos)[1],
                       movementOf(fromPos)[2]) = dest
        firstIncoming(dest) ==
            LET order == incomingOrder(dest, frame)
                hits == {k \in 1 .. 8 : incoming(dest, order[k])}
            IN  IF hits = {} THEN 0
                ELSE CHOOSE k \in hits : \A j \in hits : k <= j
        higherPriorityIncoming(destPos, myOffset) ==
            LET order == incomingOrder(destPos, frame)
                mine == {k \in 1 .. 8 : order[k] = myOffset}
                first == firstIncoming(destPos)
            IN  first # 0 /\ \A k \in mine : first < k
        movement0 == movementOf(pos)
        movement ==
            IF movement0 # <<0, 0>>
               /\ higherPriorityIncoming(
                      Off(pos, movement0[1], movement0[2]),
                      <<-movement0[1], -movement0[2]>>)
            THEN <<0, 0>> ELSE movement0
        moved == IF current # G_SAND THEN rawCell
                 ELSE IF movement # <<0, 0>> THEN packCell(EMPTY, 0, 0)
                 ELSE packCell(current, rawCell.age + 1, rawCell.color)
        first == firstIncoming(pos)
        incomingRaw ==
            getRawCell(tex, Off(pos, incomingOrder(pos, frame)[first][1],
                                incomingOrder(pos, frame)[first][2]))
    IN  IF spawnRequest = 255 /\ current # EMPTY THEN packCell(EMPTY, 0, 0)
        ELSE IF current = G_WALL THEN rawCell
        ELSE IF current = EMPTY \/ moved.type = EMPTY
        THEN IF current = EMPTY /\ spawnRequest > 0 /\ spawnRequest < 255
             THEN packCell(spawnRequest, 0, hashAt(pos, frame)[2] % 256)
             ELSE IF first # 0
             THEN packCell(incomingRaw.type, 0, incomingRaw.color)
             ELSE moved
        ELSE moved

\* One invocation of main of main.js: the texel stored for cell pos.
gridStepCell(tex, spawn, frame, fluidity, pos) ==
    LET rawCell == getRawCell(tex, pos)
        current == rawCell.type
        spawnRequest == spawn[cellIndex(pos)]
        movementOf(p) ==
            IF getRawCell(tex, p).type = G_SAND
            THEN gridSandMovement(tex, fluidity, p, hashAt(p, frame))
            ELSE <<0, 0>>
        \* checkIncoming(dest, fromOffset, frame) != 0u
        incoming(dest, fromOffset) ==
            LET fromPos == Off(dest, fromOffset[1], fromOffset[2])
            IN  /\ getRawCell(tex, fromPos).type = G_SAND
                /\ Off(fromPos, movementOf(fromPos)[1],
                       movementOf(fromPos)[2]) = dest
        firstIncoming(dest) ==
            LET order == incomingOrder(dest, frame)
                hits == {k \in 1 .. 8 : incoming(dest, order[k])}
            IN  IF hits = {} THEN 0
                ELSE CHOOSE k \in hits : \A j \in hits : k <= j
        higherPriorityIncoming(destPos, myOffset) ==
            LET order == incomingOrder(destPos, frame)
                mine == {k \in 1 .. 8 : order[k] = myOffset}
                first == firstIncoming(destPos)
            IN  first # 0 /\ \A k \in mine : first < k
        movement0 == movementOf(pos)
        movement ==
            IF movement0 # <<0, 0>>
               /\ higherPriorityIncoming(
                      Off(pos, movement0[1], movement0[2]),
                      <<-movement0[1], -movement0[2]>>)
            THEN <<0, 0>> ELSE movement0
        moved == IF current # G_SAND THEN rawCell
                 ELSE IF movement # <<0, 0>> THEN packCell(EMPTY, 0, 0)
                 ELSE packCell(current, rawCell.age + 1, rawCell.color)
        first == firstIncoming(pos)
        incomingRaw ==
            getRawCell(tex, Off(pos, incomingOrder(pos, frame)[first][1],
                                incomingOrder(pos, frame)[first][2]))
    IN  IF spawnRequest = 255 /\ current # EMPTY THEN packCell(EMPTY, 0, 0)
        ELSE IF current = G_WALL THEN rawCell
        ELSE IF current = EMPTY \/ moved.type = EMPTY
        THEN IF first # 0
             THEN packCell(incomingRaw.type, 0, incomingRaw.color)
             ELSE IF current = EMPTY /\ spawnRequest > 0 /\ spawnRequest < 255
             THEN packCell(spawnRequest, 0, hashAt(pos, frame)[2] % 256)
             ELSE moved
        ELSE moved

\* The SAND cells of a texture.
grains(tex) == {c \in CellIds : tex[c].type = G_SAND}

\* spawnParticles: queue.writeTexture of one texel per cell of the brush.
spawnParticles(spawn, type, mousePos, brushSize) ==
    [c \in CellIds |->
       IF /\ (cellPos(c)[1] - mousePos[1]) * (cellPos(c)[1] - mousePos[1])
               + (cellPos(c)[2] - mousePos[2]) * (cellPos(c)[2] - mousePos[2])
                 <= brushSize * brushSize
          /\ cellPos(c)[2] < HEIGHT - 1
       THEN (IF type = EMPTY THEN 255 ELSE type)
       ELSE spawn[c]]

(***************************************************************************)
(* RestSpec: the automaton step applied again and again to one grain that  *)
(* rests on the floor of the container, old enough to have settled, with   *)
(* the fluidity slider at 0, in the flip-sim automaton and, side by side,  *)
(* in the grid-only automaton.  Each step runs with whatever frame counter *)
(* the parameters hold, and any counter may follow.                        *)
(***************************************************************************)
FloorRow == {i \in Interior : cellPos(i)[2] = HEIGHT - 2}

RestInit ==
    \E c \in FloorRow, age \in {61, 62, MAX_AGE - 1, MAX_AGE},
       f \in 0 .. FrameCap,
       wetness \in {0, INTERACT_THRESHOLD}, u \in {-3, 3}, f0 \in BOOLEAN :
        /\ InitGrid(uniformSnapshot(pileMaterial({c}),
                        [frame |-> f, fluidity |-> 0, age |-> age,
                         density |-> wetness, velU |-> u, fell |-> f0]))
        /\ InitParticles([p \in ParticleIds |-> 0],
                         [p \in ParticleIds |-> 0], [i \in CellIds |-> 0])
        /\ InitSolo([i \in CellIds |->
                       IF i = c
                       THEN packCell(G_SAND, age, sandColorVar(cellPos(c)))
                       ELSE createInitialData[i]], 0)
        /\ pc = "step"

RestStep ==
    /\ pc = "step"
    /\ steps < MaxRest
    /\ SandStepDispatch
    /\ textures' = [textures EXCEPT ![1 - (renderFrame % 2)] =
                      [c \in CellIds |->
                         gridStepCell(textures[renderFrame % 2], spawnTex,
                                      params.frame, paramsBuffer.w,
                                      cellPos(c))]]
    /\ renderFrame' = renderFrame + 1
    /\ \E f \in 0 .. FrameCap :
         /\ params' = [params EXCEPT !.frame = f]
         /\ paramsBuffer' = [paramsBuffer EXCEPT !.x = f]
    /\ steps' = steps + 1
    /\ UNCHANGED <<velIndex, densityTex, velUTex, invoked, twin, pc,
                   particleVars, frameVars, simSpeed, isPaused, queue,
                   evaluated, binInv,
                   flipVars>>

RestSpec == RestInit /\ [][RestStep]_vars

\* C12: an isolated grain resting on a flat floor with age > 60 and
\* fluidity 0 never moves: whatever the frame counter of each step, its
\* cell stays SAND, no other cell becomes SAND, and of its metadata only
\* the age changes.
C12_RestingGrainStays ==
    [][/\ materialTex'[matIndex'] = materialIn
       /\ \A c \in CellIds :
              /\ getSandColorVar(sandMetaTex'[matIndex'][c])
                     = getSandColorVar(sandMetaIn[c])
              /\ materialIn[c] # SAND => sandMetaTex'[matIndex'][c] = 0
       /\ \A c \in CellIds :
              LET before == textures[renderFrame % 2][c]
                  after == textures'[renderFrame' % 2][c]
              IN  /\ after.type = before.type
                  /\ after.color = before.color
                  /\ before.type # G_SAND => after = before]_vars

\* MaxRest steps have run on a grain that started at age 61, in a wet cell
\* of the flip-sim grid.
C12_Witness ==
    /\ steps = MaxRest
    /\ params.frame # 0
    /\ \E c \in FloorRow :
           /\ materialIn[c] = SAND
           /\ getSandAge(sandMetaIn[c]) = 61 + MaxRest
           /\ densityTex[c] >= INTERACT_THRESHOLD
           /\ textures[renderFrame % 2][c].type = G_SAND
           /\ textures[renderFrame % 2][c].age = 61 + MaxRest
    /\ sandCount(materialIn) = 1
    /\ Cardinality(grains(textures[renderFrame % 2])) = 1

(***************************************************************************)
(* RenderSpec: the render loop of main.js and the device queue.  render    *)
(* issues, in this order: the brush texels when the mouse is down; for     *)
(* each of the simSpeed steps one queue.writeBuffer of the params uniform, *)
(* while the compute pass of the step is only recorded in the encoder;     *)
(* one queue.submit of all recorded passes; and the queue.writeTexture     *)
(* that clears the spawn texture.  The queue runs its operations in the    *)
(* order they were issued.  Between frames the pause button, the speed     *)
(* slider and the mouse change the inputs.                                 *)
(***************************************************************************)
render ==
    /\ pc = "render"
    /\ frames < MaxRenders
    /\ renderFrame + MaxSpeed <= FrameCap
    /\ \E pauseKey \in BOOLEAN, speed \in 1 .. MaxSpeed,
          mouse \in {<<FALSE, EMPTY, <<2, 2>>, 1>>,
                     <<TRUE, G_SAND, <<2, 1>>, 1>>,
                     <<TRUE, G_WALL, <<1, 2>>, 1>>,
                     <<TRUE, EMPTY, <<2, 2>>, 1>>,
                     <<TRUE, EMPTY, <<2, 2>>, 2>>} :
         /\ isPaused' = (isPaused # pauseKey)
         /\ simSpeed' = speed
         /\ spawnTex' = IF mouse[1]
                        THEN spawnParticles(spawnTex, mouse[2], mouse[3],
                                            mouse[4])
                        ELSE spawnTex
         /\ queue' = (IF isPaused'
                      THEN << >>
                      ELSE [step \in 1 .. speed |->
                              [op |-> "writeBuffer",
                               x |-> renderFrame + step - 1]]
                           \o [step \in 1 .. speed |->
                                [op |-> "pass",
                                 x |-> (renderFrame + step - 1) % 2]])
                     \o <<[op |-> "writeTexture", x |-> 0]>>
         /\ renderFrame' = IF isPaused' THEN renderFrame
                           ELSE renderFrame + speed
    /\ frames' = frames + 1
    /\ pc' = "queue"
    /\ UNCHANGED <<gridVars, fluidVars, schedVars, paused, lastPass,
                   particlePos, particleVel, particleMass, cellCounts,
                   cellParticles, freeCount, freeList, spawnInv, popped,
                   textures, paramsBuffer, evaluated, binInv,
                   flipVars>>

\* The queue runs its oldest operation: a write of the params uniform, a
\* compute pass bound with computeBindGroups[x], or the write that clears
\* the spawn texture.
QueueRun ==
    /\ pc = "queue"
    /\ queue # << >>
    /\ LET head == Head(queue)
       IN  /\ paramsBuffer' = IF head.op = "writeBuffer"
                              THEN [paramsBuffer EXCEPT !.x = head.x]
                              ELSE paramsBuffer
           /\ textures' =
                 IF head.op = "pass"
                 THEN [textures EXCEPT ![1 - head.x] =
                         [c \in CellIds |->
                            gridStepCell(textures[head.x], spawnTex,
                                         paramsBuffer.x, paramsBuffer.w,
                                         cellPos(c))]]
                 ELSE textures
           /\ evaluated' = IF head.op = "pass"
                           THEN Append(evaluated, paramsBuffer.x)
                           ELSE evaluated
           /\ spawnTex' = IF head.op = "writeTexture"
                          THEN [c \in CellIds |-> 0]
                          ELSE spawnTex
    /\ queue' = Tail(queue)
    /\ pc' = IF Len(queue) = 1 THEN "render" ELSE "queue"
    /\ UNCHANGED <<gridVars, fluidVars, schedVars, frameVars, particlePos,
                   particleVel, particleMass, cellCounts, cellParticles,
                   freeCount, freeList, spawnInv, popped, renderFrame,
                   simSpeed, isPaused, binInv,
                   flipVars>>

RenderInit ==
    /\ InitGrid(uniformSnapshot(buildMaterialState,
                   [frame |-> 0, fluidity |-> 50, age |-> 0, density |-> 0,
                    velU |-> 0, fell |-> FALSE]))
    /\ InitParticles([p \in ParticleIds |-> 0], [p \in ParticleIds |-> 0],
                     [c \in CellIds |-> 0])
    /\ \E sandFluidity \in {50, 100} : InitSolo(createInitialData, sandFluidity)
    /\ pc = "render"

RenderNext ==
    \/ render
    \/ QueueRun

RenderSpec == RenderInit /\ [][RenderNext]_vars

\* C16 as stated: no two automaton steps are evaluated with the same seed:
\* the frame values of the compute passes run so far are strictly
\* increasing.
C16_AsStated ==
    \A i, j \in DOMAIN evaluated : i < j => evaluated[i] < evaluated[j]


\* C17 as stated: after a compute pass in which every cell of a region
\* carries an erase request, every cell of the region is EMPTY and every
\* grain that was in the region is gone: the grid holds that many grains
\* fewer.
C17_AsStated ==
    [][pc = "queue" /\ queue # << >> /\ Head(queue).op = "pass"
         => LET region == {c \in CellIds : spawnTex[c] = 255}
                before == textures[Head(queue).x]
                after == textures'[1 - Head(queue).x]
            IN  region # {} =>
                /\ \A c \in region : after[c].type = EMPTY
                /\ Cardinality(grains(after))
                     <= Cardinality(grains(before))
                          - Cardinality(grains(before) \cap region)]_vars


(***************************************************************************)
(* The sand-only automaton, the oldest version: types EMPTY, SAND and      *)
(* WALL, a texel holding type and age.                                     *)
(***************************************************************************)
\* getSandMovement of the sand-only shader.
sandOnlyMovement(tex, pos, rng) ==
    LET getCell(dx, dy) == getRawCell(tex, Off(pos, dx, dy)).type
        below == getCell(0, 1)
        belowLeft == getCell(-1, 1)
        belowRight == getCell(1, 1)
        left == getCell(-1, 0)
        right == getCell(1, 0)
        canFallLeft == belowLeft = EMPTY /\ ~(left = G_SAND)
        canFallRight == belowRight = EMPTY /\ ~(right = G_SAND)
        wantLeft == (rng[2] % 2) = 0
        currentAge == getRawCell(tex, pos).age
        settleRoll == Mod100(rng)
        settleChance == IF currentAge > 60 THEN 3
                        ELSE IF currentAge > 30 THEN 15
                        ELSE IF currentAge > 10 THEN 40
                        ELSE 80
        left2 == getCell(-2, 0)
        right2 == getCell(2, 0)
        belowLeft2 == getCell(-2, 1)
        belowRight2 == getCell(2, 1)
        canSlideLeft ==
            (left = EMPTY
             /\ (belowLeft = EMPTY \/ (left2 = EMPTY /\ belowLeft2 = EMPTY)))
            /\ ~(left2 = G_SAND /\ belowLeft = EMPTY)
        canSlideRight ==
            (right = EMPTY
             /\ (belowRight = EMPTY \/ (right2 = EMPTY /\ belowRight2 = EMPTY)))
            /\ ~(right2 = G_SAND /\ belowRight = EMPTY)
    IN  IF below = EMPTY THEN <<0, 1>>
        ELSE IF canFallLeft /\ canFallRight
             THEN (IF wantLeft THEN <<-1, 1>> ELSE <<1, 1>>)
        ELSE IF canFallLeft THEN <<-1, 1>>
        ELSE IF canFallRight THEN <<1, 1>>
        ELSE IF settleRoll >= settleChance THEN <<0, 0>>
        ELSE IF canSlideLeft /\ canSlideRight
             THEN (IF wantLeft THEN <<-1, 0>> ELSE <<1, 0>>)
        ELSE IF canSlideLeft THEN <<-1, 0>>
        ELSE IF canSlideRight THEN <<1, 0>>
        ELSE <<0, 0>>

\* One invocation of main of the sand-only shader: the texel stored for
\* cell pos.
sandOnlyStepCell(tex, spawn, frame, pos) ==
    LET rawCell == getRawCell(tex, pos)
        spawnRequest == spawn[cellIndex(pos)]
        wasJustSpawned ==
            spawnRequest # 255 /\ spawnRequest > 0 /\ rawCell.type = EMPTY
        current == IF spawnRequest = 255 THEN EMPTY
                   ELSE IF wasJustSpawned THEN spawnRequest
                   ELSE rawCell.type
        currentAge == IF spawnRequest = 255 \/ wasJustSpawned THEN 0
                      ELSE rawCell.age
        \* the neighbour at offset from is SAND and moves into pos
        arrives(from) ==
            LET fromPos == Off(pos, from[1], from[2])
                movement == sandOnlyMovement(tex, fromPos,
                                             hashAt(fromPos, frame))
            IN  /\ getRawCell(tex, fromPos).type = G_SAND
                /\ Off(fromPos, movement[1], movement[2]) = pos
    IN  IF current = G_WALL THEN packCell(G_WALL, 0, 0)
        ELSE IF current = G_SAND
        THEN IF wasJustSpawned THEN packCell(G_SAND, 0, 0)
             ELSE IF sandOnlyMovement(tex, pos, hashAt(pos, frame)) # <<0, 0>>
             THEN packCell(EMPTY, 0, 0)
             ELSE packCell(G_SAND, currentAge + 1, 0)
        ELSE IF current = EMPTY
        THEN IF \E from \in {<<0, -1>>, <<-1, -1>>, <<1, -1>>, <<-1, 0>>,
                             <<1, 0>>} : arrives(from)
             THEN packCell(G_SAND, 0, 0)
             ELSE packCell(EMPTY, currentAge, 0)
        ELSE packCell(current, currentAge, 0)

(***************************************************************************)
(* GatherSpec: one compute pass of the sand-only version, with no spawn    *)
(* or erase request, over every grid with at most MaxGrains grains in the  *)
(* three columns and three rows above the middle of the floor.             *)
(***************************************************************************)
GatherInit ==
    /\ InitGrid(uniformSnapshot(buildMaterialState,
                   [frame |-> 0, fluidity |-> 50, age |-> 0, density |-> 0,
                    velU |-> 0, fell |-> FALSE]))
    /\ InitParticles([p \in ParticleIds |-> 0], [p \in ParticleIds |-> 0],
                     [c \in CellIds |-> 0])
    /\ \E G \in {g \in SUBSET Interior : Cardinality(g) <= MaxGrains},
          age \in {0, 61}, x \in 0 .. 1 :
         /\ textures = [i \in 0 .. 1 |->
                          [c \in CellIds |->
                             IF c \in G THEN packCell(G_SAND, age, 0)
                             ELSE createInitialData[c]]]
         /\ paramsBuffer = [x |-> x, w |-> 0]
         /\ renderFrame = x + 1
         /\ queue = <<[op |-> "pass", x |-> 0]>>
    /\ simSpeed = 1
    /\ isPaused = FALSE
    /\ evaluated = << >>
    /\ binInv = {}
    /\ InitFlip
    /\ pc = "queue"

SandOnlyPass ==
    /\ pc = "queue"
    /\ queue # << >>
    /\ Head(queue).op = "pass"
    /\ textures' = [textures EXCEPT ![1 - Head(queue).x] =
                      [c \in CellIds |->
                         sandOnlyStepCell(textures[Head(queue).x], spawnTex,
                                          paramsBuffer.x, cellPos(c))]]
    /\ evaluated' = Append(evaluated, paramsBuffer.x)
    /\ queue' = Tail(queue)
    /\ pc' = IF Len(queue) = 1 THEN "render" ELSE "queue"
    /\ UNCHANGED <<gridVars, fluidVars, schedVars, frameVars, particleVars,
                   renderFrame, simSpeed, isPaused, paramsBuffer, binInv,
                   flipVars>>

GatherSpec == GatherInit /\ [][SandOnlyPass]_vars

\* C18 as stated: a step of the sand-only automaton with no spawn or erase
\* request preserves the number of SAND cells.
C18_AsStated ==
    pc = "render" /\ evaluated # << >> =>
        Cardinality(grains(textures[1])) = Cardinality(grains(textures[0]))


\* C19 as stated: the automaton step of a frame operates on a grid that
\* already contains that frame's brush edits: when the step is about to
\* run, every cell with a WALL, SAND or ROCK request holds that material
\* and every cell with an erase request is EMPTY.
C19_AsStated ==
    pc = "sand" =>
        \A c \in CellIds :
            /\ spawnTex[c] \in {WALL, SAND, ROCK} => materialIn[c] = spawnTex[c]
            /\ spawnTex[c] = ERASER => materialIn[c] = EMPTY


(***************************************************************************)
(* BinSpec: clearParticleGrid and binParticles, one invocation at a time.  *)
(* Here particlePos[p] is the pair <<floor(pos.x), floor(pos.y)>>, which   *)
(* may lie outside the grid, and cellParticles is the whole buffer, a      *)
(* cell's MAX_CELL_PARTICLES slots starting at cIdx * MAX_CELL_PARTICLES,  *)
(* which no pass clears.  Only the slots BinIds can hold a live particle;  *)
(* the invocations of the other slots return at the mass test and are not  *)
(* steps.                                                                  *)
(***************************************************************************)
BinIds == 0 .. MaxBinned - 1

BinPositions == {<<-1, -1>>, <<0, 0>>, <<WIDTH, HEIGHT - 1>>}

\* The cell index binParticles computes for a floored position, as the
\* modulo of the coordinates instead of their clamp.
binCell_Wrapping(pos) ==
    cellIndex(<<pos[1] % WIDTH, pos[2] % HEIGHT>>)

\* Whether a binParticles invocation stores its index, by the slot its
\* atomicAdd returned: here whatever the slot.
binStores_Always(slot) == TRUE

\* Whether a binParticles invocation stores its index.
binStores(slot) == slot < MAX_CELL_PARTICLES

\* The buffer indices a reader of the bin of cell cIdx loads
\* (clearCellParticles, separateParticles).
binRead(cIdx) ==
    {cIdx * MAX_CELL_PARTICLES + i :
        i \in 0 .. Min(cellCounts[cIdx], MAX_CELL_PARTICLES) - 1}

\* The cell index binParticles computes for a floored position.
binCell(pos) ==
    cellIndex(<<Max(0, Min(pos[1], WIDTH - 1)),
                Max(0, Min(pos[2], HEIGHT - 1))>>)

BinInit ==
    \E pos \in [BinIds -> BinPositions], mass \in [BinIds -> 0 .. 1] :
        /\ InitGrid(uniformSnapshot(pileMaterial({}),
                        [frame |-> 0, fluidity |-> 0, age |-> 0,
                         density |-> 0, velU |-> 0, fell |-> FALSE]))
        /\ InitSolo(createInitialData, 50)
        /\ particlePos = [p \in ParticleIds |->
                            IF p \in BinIds THEN pos[p] ELSE <<0, 0>>]
        /\ particleVel = [p \in ParticleIds |-> <<0, 0>>]
        /\ particleMass = [p \in ParticleIds |->
                             IF p \in BinIds THEN mass[p] ELSE 0]
        /\ cellCounts = [c \in CellIds |-> 0]
        /\ cellParticles =
               [k \in 0 .. WIDTH * HEIGHT * MAX_CELL_PARTICLES - 1 |-> 0]
        /\ freeCount = 0
        /\ freeList = << >>
        /\ spawnTex = [c \in CellIds |-> 0]
        /\ spawnInv = << >>
        /\ popped = << >>
        /\ pc = "binclear"

\* clearParticleGrid: every count is stored as zero; the slots are kept.
ClearParticleGrid ==
    /\ pc = "binclear"
    /\ steps < MaxBinPasses
    /\ cellCounts' = [c \in CellIds |-> 0]
    /\ invoked' = {}
    /\ pc' = "binning"
    /\ UNCHANGED <<gridVars, fluidVars, sandMove, twin, steps, frameVars,
                   particlePos, particleVel, particleMass, cellParticles,
                   freeCount, freeList, spawnTex, spawnInv, popped, soloVars>>

\* A binParticles invocation up to its atomicAdd.
BinCount ==
    /\ pc = "binning"
    /\ \E idx \in BinIds \ (invoked \cup {e[1] : e \in binInv}) :
         IF particleMass[idx] <= 0
         THEN /\ invoked' = invoked \cup {idx}
              /\ UNCHANGED <<cellCounts, binInv>>
         ELSE LET cIdx == binCell(particlePos[idx])
                  slot == cellCounts[cIdx]
              IN  /\ cellCounts' = [cellCounts EXCEPT ![cIdx] = slot + 1]
                  /\ IF binStores(slot)
                     THEN /\ binInv' = binInv \cup {<<idx, cIdx, slot>>}
                          /\ UNCHANGED invoked
                     ELSE /\ invoked' = invoked \cup {idx}
                          /\ UNCHANGED binInv
    /\ UNCHANGED <<gridVars, fluidVars, sandMove, twin, steps, frameVars,
                   pc, particlePos, particleVel, particleMass, cellParticles,
                   freeCount, freeList, spawnTex, spawnInv, popped,
                   textures, renderFrame, simSpeed, isPaused, paramsBuffer,
                   queue, evaluated, flipVars>>

\* The store of a binParticles invocation whose slot is below the cap.
BinStore ==
    /\ pc = "binning"
    /\ \E e \in binInv :
         /\ cellParticles' =
               [cellParticles EXCEPT ![e[2] * MAX_CELL_PARTICLES + e[3]] = e[1]]
         /\ binInv' = binInv \ {e}
         /\ invoked' = invoked \cup {e[1]}
    /\ UNCHANGED <<gridVars, fluidVars, sandMove, twin, steps, frameVars,
                   pc, particlePos, particleVel, particleMass, cellCounts,
                   freeCount, freeList, spawnTex, spawnInv, popped,
                   textures, renderFrame, simSpeed, isPaused, paramsBuffer,
                   queue, evaluated, flipVars>>

\* The bin dispatch is complete when every invocation has returned.
BinEnd ==
    /\ pc = "binning"
    /\ invoked = BinIds
    /\ steps' = steps + 1
    /\ pc' = "binned"
    /\ UNCHANGED <<gridVars, fluidVars, sandMove, invoked, twin, frameVars,
                   particleVars, soloVars>>

\* The passes a frame runs between two bin passes (spawn, integrate,
\* separate, evict) move, create or kill particles: one particle here.
BetweenBins ==
    /\ pc = "binned"
    /\ steps < MaxBinPasses
    /\ \E p \in BinIds, pos \in BinPositions, mass \in 0 .. 1 :
         /\ particlePos' = [particlePos EXCEPT ![p] = pos]
         /\ particleMass' = [particleMass EXCEPT ![p] = mass]
    /\ pc' = "binclear"
    /\ UNCHANGED <<gridVars, fluidVars, schedVars, frameVars, particleVel,
                   cellCounts, cellParticles, freeCount, freeList, spawnTex,
                   spawnInv, popped, soloVars>>

BinNext == ClearParticleGrid \/ BinCount \/ BinStore \/ BinEnd \/ BetweenBins

BinSpec == BinInit /\ [][BinNext]_vars

\* C20: after every bin pass, under any interleaving of the particle
\* invocations, the per-cell counts sum to the number of live particles:
\* every cell's count is the number of live particles whose position,
\* clamped to the grid, lies in that cell, so that a dead particle is
\* counted nowhere; and the slots the pass filled (those below the count
\* and below the cap) hold particles of the cell, no index twice.
C20_BinIsExact ==
    pc = "binned" =>
        LET holds(c, p) ==
                /\ cellPos(c)[1] = Max(0, Min(particlePos[p][1], WIDTH - 1))
                /\ cellPos(c)[2] = Max(0, Min(particlePos[p][2], HEIGHT - 1))
            filled == {s \in CellIds \X (0 .. MAX_CELL_PARTICLES - 1) :
                          s[2] < cellCounts[s[1]]}
            stored(s) == cellParticles[s[1] * MAX_CELL_PARTICLES + s[2]]
            RECURSIVE total(_)
            total(n) == IF n < 0 THEN 0 ELSE cellCounts[n] + total(n - 1)
        IN  /\ total(WIDTH * HEIGHT - 1) = Cardinality(live)
            /\ \A c \in CellIds :
                   cellCounts[c] = Cardinality({p \in live : holds(c, p)})
            /\ \A s \in filled :
                   /\ stored(s) \in live
                   /\ holds(s[1], stored(s))
            /\ \A s, t \in filled : s # t => stored(s) # stored(t)

\* The second bin pass of a run is complete: a live particle lies outside
\* the grid, a particle the first pass stored has died since, and a slot
\* above a cell's count still holds an index the pass stored elsewhere.
C20_Witness ==
    /\ pc = "binned"
    /\ steps = MaxBinPasses
    /\ \E p \in live : particlePos[p] = <<WIDTH, HEIGHT - 1>>
    /\ \E p \in BinIds \ live : \E k \in DOMAIN cellParticles :
           cellParticles[k] = p
    /\ \E c, d \in CellIds : \E k, m \in 0 .. MAX_CELL_PARTICLES - 1 :
           /\ c # d
           /\ k >= cellCounts[c]
           /\ m < cellCounts[d]
           /\ cellParticles[c * MAX_CELL_PARTICLES + k]
                = cellParticles[d * MAX_CELL_PARTICLES + m]
           /\ cellParticles[c * MAX_CELL_PARTICLES + k] \in live


\* C21: when more than MAX_CELL_PARTICLES live particles fall in one cell,
\* the bin pass stores MAX_CELL_PARTICLES of them: every store of the pass
\* writes the index of a live particle into a slot of the region of that
\* particle's cell and changes no other slot; no step of the pass changes a
\* particle's mass, position or velocity; and when the pass is complete, an
\* overfull cell's region holds MAX_CELL_PARTICLES distinct live particles
\* of the cell, and a reader of any bin loads slots of its region only.
C21_OverflowIsContained ==
    [][pc = "binning" =>
         LET region(c) == {k \in DOMAIN cellParticles :
                              k \div MAX_CELL_PARTICLES = c}
             within(c, p) ==
                /\ cellPos(c)[1] = Max(0, Min(particlePos[p][1], WIDTH - 1))
                /\ cellPos(c)[2] = Max(0, Min(particlePos[p][2], HEIGHT - 1))
         IN  /\ particleMass' = particleMass
             /\ particlePos' = particlePos
             /\ particleVel' = particleVel
             /\ DOMAIN cellParticles' = DOMAIN cellParticles
             /\ \A k \in DOMAIN cellParticles :
                    cellParticles'[k] # cellParticles[k] =>
                        /\ cellParticles'[k] \in live
                        /\ within(k \div MAX_CELL_PARTICLES, cellParticles'[k])
             /\ pc' = "binned" =>
                    \A c \in CellIds :
                        /\ binRead(c)' \subseteq region(c)
                        /\ cellCounts'[c] > MAX_CELL_PARTICLES =>
                               /\ \A k \in region(c) :
                                      /\ cellParticles'[k] \in live
                                      /\ within(c, cellParticles'[k])
                               /\ \A k, m \in region(c) :
                                      k # m =>
                                          cellParticles'[k] # cellParticles'[m]]_vars

\* A bin pass is complete in which three live particles fell in one cell of
\* capacity below three, one of them from outside the grid: the particle
\* the pass did not store is still alive.
C21_Witness ==
    /\ pc = "binned"
    /\ \E c \in CellIds :
         /\ cellCounts[c] > MAX_CELL_PARTICLES
         /\ \E p \in live :
              /\ binCell(particlePos[p]) = c
              /\ particlePos[p] = <<-1, -1>>
              /\ \A k \in DOMAIN cellParticles : cellParticles[k] # p


(***************************************************************************)
(* DepositSpec: clearGrid, depositParticles and normalizeGrid with the     *)
(* configured grid, particle count and fixed-point scale.  The live        *)
(* particles are a swarm: count particles at one position, given in        *)
(* quarter cells, with one velocity.  The accumulators are kept for the    *)
(* nodes and faces around the swarm and for one far node or face, as       *)
(* <<high, low>> halves of their 32 bits (two's complement for the i32     *)
(* sums).  A velocity normalizeGrid stores is the pair of the operands of  *)
(* its f32 division.                                                       *)
(***************************************************************************)
GRID_MAX_PARTICLES == GRID_WIDTH * GRID_HEIGHT * SIM_PARTICLES_PER_CELL

SwarmCounts == {1, 9, 2304, 65536, 589806, 589807, GRID_MAX_PARTICLES}

SwarmPositions == {<<42 + a, 42 + b>> : a, b \in 0 .. 3}

SwarmVels == {<<0, 0>>, <<3, -2>>}

DensityNodes == ({10, 11} \X {10, 11}) \cup {<<0, 0>>}

SwarmUFaces == ({10, 11, 12} \X {10, 11}) \cup {<<0, 0>>}

SwarmVFaces == ({10, 11} \X {10, 11, 12}) \cup {<<0, 0>>}

\* The four nodes a position (quarter cells) is spread over and their
\* bilinear weights in sixteenths; the lower node is clamped to
\* 0 .. hiX0, 0 .. hiY0 and the upper one to hiX1, hiY1.
splat(x4, y4, hiX0, hiY0, hiX1, hiY1) ==
    LET x0 == Max(0, Min(x4 \div 4, hiX0))
        y0 == Max(0, Min(y4 \div 4, hiY0))
        x1 == Max(0, Min(x0 + 1, hiX1))
        y1 == Max(0, Min(y0 + 1, hiY1))
        fx == x4 - 4 * x0
        fy == y4 - 4 * y0
    IN  <<[node |-> <<x0, y0>>, w16 |-> (4 - fx) * (4 - fy)],
          [node |-> <<x1, y0>>, w16 |-> fx * (4 - fy)],
          [node |-> <<x0, y1>>, w16 |-> (4 - fx) * fy],
          [node |-> <<x1, y1>>, w16 |-> fx * fy]>>

\* u32(round(w * mass * FIXED_SCALE_F)) for the mass 1 / PARTICLES_PER_CELL
\* of a spawned particle and a weight in sixteenths.
fixedWeight(w16) ==
    IF w16 <= 0 THEN 0
    ELSE (2 * w16 * (FIXED_SCALE \div 16) + SIM_PARTICLES_PER_CELL)
            \div (2 * SIM_PARTICLES_PER_CELL)

\* The 32 bits of an integer, negative ones in two's complement.
bits32(v) == joinHalves(v % 65536, v \div 65536)

\* An accumulator buffer after count invocations have each added, to the
\* four nodes of parts, factor times the fixed-point weight.
atomicAdds(acc, parts, count, factor) ==
    [k \in DOMAIN acc |->
       LET term(i) == MulU32(U32(count),
                             bits32(factor * fixedWeight(parts[i].w16)))
           add(a, i) == IF parts[i].node = k THEN AddU32(a, term(i)) ELSE a
       IN  add(add(add(add(acc[k], 1), 2), 3), 4)]

\* normalizeGrid for one face, without the test of the weight.
normalizeFace_Unguarded(sum, w) == [num |-> sum, den |-> w]

\* normalizeGrid for one face: u = 0.0, and u = sum / w if w > 0.0.
normalizeFace(sum, w) ==
    IF w # <<0, 0>> THEN [num |-> sum, den |-> w]
    ELSE [num |-> <<0, 0>>, den |-> <<0, 1>>]

DepositInit ==
    /\ InitGrid(uniformSnapshot(pileMaterial({}),
                    [frame |-> 0, fluidity |-> 0, age |-> 0,
                     density |-> 0, velU |-> 0, fell |-> FALSE]))
    /\ InitParticles([p \in ParticleIds |-> 0], [p \in ParticleIds |-> 0],
                     [i \in CellIds |-> 0])
    /\ textures = [i \in 0 .. 1 |-> createInitialData]
    /\ renderFrame = 0
    /\ simSpeed = 1
    /\ isPaused = FALSE
    /\ paramsBuffer = [x |-> 0, w |-> 50]
    /\ queue = << >>
    /\ evaluated = << >>
    /\ binInv = {}
    /\ swarm = [count |-> 0, pos |-> <<42, 42>>, vel |-> <<0, 0>>]
    /\ sums = [densitySum |-> [k \in DensityNodes |-> <<0, 0>>],
               uSum |-> [k \in SwarmUFaces |-> <<0, 0>>],
               uWeight |-> [k \in SwarmUFaces |-> <<0, 0>>],
               vSum |-> [k \in SwarmVFaces |-> <<0, 0>>],
               vWeight |-> [k \in SwarmVFaces |-> <<0, 0>>]]
    /\ normOut = [density |-> [k \in DensityNodes |-> normalizeFace(<<0, 0>>, <<0, 0>>)],
                  velUPrev |-> [k \in SwarmUFaces |-> normalizeFace(<<0, 0>>, <<0, 0>>)],
                  velVPrev |-> [k \in SwarmVFaces |-> normalizeFace(<<0, 0>>, <<0, 0>>)],
                  velU |-> [k \in SwarmUFaces |-> normalizeFace(<<0, 0>>, <<0, 0>>)],
                  velV |-> [k \in SwarmVFaces |-> normalizeFace(<<0, 0>>, <<0, 0>>)]]
    /\ velVTex = << >>
    /\ markerBuffer = << >>
    /\ pressureTex = << >>
    /\ pressureIndex = 0
    /\ simSettings = [airMixing |-> FALSE]
    /\ InitDriver
    /\ pc = "swarm"

\* The passes before the deposit of a substep (spawn, integrate, separate)
\* leave the live particles somewhere: here together.
SwarmMoves ==
    /\ pc = "swarm"
    /\ steps < MaxDeposits
    /\ \E n \in SwarmCounts, at \in SwarmPositions, v \in SwarmVels :
         swarm' = [count |-> n, pos |-> at, vel |-> v]
    /\ pc' = "cleargrid"
    /\ UNCHANGED <<gridVars, fluidVars, schedVars, frameVars, particleVars,
                   textures, renderFrame, simSpeed, isPaused, paramsBuffer,
                   queue, evaluated, binInv, sums, normOut, velVTex,
                   markerBuffer, pressureTex, pressureIndex,
                   simSettings, driverVars>>

\* clearGrid: every accumulator is stored as zero.
ClearGrid ==
    /\ pc = "cleargrid"
    /\ sums' = [densitySum |-> [k \in DensityNodes |-> <<0, 0>>],
                uSum |-> [k \in SwarmUFaces |-> <<0, 0>>],
                uWeight |-> [k \in SwarmUFaces |-> <<0, 0>>],
                vSum |-> [k \in SwarmVFaces |-> <<0, 0>>],
                vWeight |-> [k \in SwarmVFaces |-> <<0, 0>>]]
    /\ pc' = "depositing"
    /\ UNCHANGED <<gridVars, fluidVars, schedVars, frameVars, particleVars,
                   textures, renderFrame, simSpeed, isPaused, paramsBuffer,
                   queue, evaluated, binInv, swarm, normOut, velVTex,
                   markerBuffer, pressureTex, pressureIndex,
                   simSettings, driverVars>>

\* depositParticles: every live particle runs depositDensity, depositU and
\* depositV; the atomicAdds of the invocations commute.
DepositParticles ==
    /\ pc = "depositing"
    /\ LET x == swarm.pos[1]
           y == swarm.pos[2]
           onNodes == splat(x - 2, y - 2, GRID_WIDTH - 1, GRID_HEIGHT - 1,
                            GRID_WIDTH - 1, GRID_HEIGHT - 1)
           onU == splat(x, y - 2, GRID_WIDTH - 1, GRID_HEIGHT - 2,
                        GRID_WIDTH, GRID_HEIGHT - 1)
           onV == splat(x - 2, y, GRID_WIDTH - 2, GRID_HEIGHT - 1,
                        GRID_WIDTH - 1, GRID_HEIGHT)
       IN  sums' =
             [densitySum |-> atomicAdds(sums.densitySum, onNodes,
                                        swarm.count, 1),
              uSum |-> atomicAdds(sums.uSum, onU, swarm.count, swarm.vel[1]),
              uWeight |-> atomicAdds(sums.uWeight, onU, swarm.count, 1),
              vSum |-> atomicAdds(sums.vSum, onV, swarm.count, swarm.vel[2]),
              vWeight |-> atomicAdds(sums.vWeight, onV, swarm.count, 1)]
    /\ pc' = "normalize"
    /\ UNCHANGED <<gridVars, fluidVars, schedVars, frameVars, particleVars,
                   textures, renderFrame, simSpeed, isPaused, paramsBuffer,
                   queue, evaluated, binInv, swarm, normOut, velVTex,
                   markerBuffer, pressureTex, pressureIndex,
                   simSettings, driverVars>>

\* normalizeGrid: the density and, for every face, the velocity, stored to
\* the previous and to the current velocity texture.
NormalizeGrid ==
    /\ pc = "normalize"
    /\ \E u \in {[k \in SwarmUFaces |->
                    normalizeFace(sums.uSum[k], sums.uWeight[k])]},
          v \in {[k \in SwarmVFaces |->
                    normalizeFace(sums.vSum[k], sums.vWeight[k])]} :
         normOut' = [density |-> [k \in DensityNodes |->
                                    [num |-> sums.densitySum[k],
                                     den |-> U32(FIXED_SCALE)]],
                     velUPrev |-> u, velVPrev |-> v, velU |-> u, velV |-> v]
    /\ steps' = steps + 1
    /\ pc' = "swarm"
    /\ UNCHANGED <<gridVars, fluidVars, sandMove, invoked, twin, frameVars,
                   particleVars, textures, renderFrame, simSpeed, isPaused,
                   paramsBuffer, queue, evaluated, binInv, swarm, sums,
                   velVTex, markerBuffer, pressureTex, pressureIndex,
                   simSettings, driverVars>>

DepositNext == SwarmMoves \/ ClearGrid \/ DepositParticles \/ NormalizeGrid

DepositSpec == DepositInit /\ [][DepositNext]_vars

\* C22: the normalize pass never divides by a zero weight: whenever
\* normalizeGrid has run, no stored velocity has a zero divisor; for every
\* face whose accumulated weight is zero the stored velocity, current and
\* previous copy alike, is 0, and for every other face both copies are the
\* accumulated momentum divided by the accumulated weight.
C22_NormalizeGuarded ==
    pc = "swarm" /\ steps > 0 =>
        LET zero == [num |-> <<0, 0>>, den |-> <<0, 1>>]
            face(sum, w, now, prev) ==
                /\ now.den # <<0, 0>>
                /\ prev.den # <<0, 0>>
                /\ w = <<0, 0>> => now = zero /\ prev = zero
                /\ w # <<0, 0>> =>
                       /\ now.num = sum /\ now.den = w
                       /\ prev.num = sum /\ prev.den = w
        IN  /\ \A k \in SwarmUFaces :
                   face(sums.uSum[k], sums.uWeight[k],
                        normOut.velU[k], normOut.velUPrev[k])
            /\ \A k \in SwarmVFaces :
                   face(sums.vSum[k], sums.vWeight[k],
                        normOut.velV[k], normOut.velVPrev[k])

\* The second normalize pass of a run has stored a velocity for a face
\* with momentum and weight, and for a face of the swarm's own cell whose
\* weight is zero.
C22_Witness ==
    /\ pc = "swarm"
    /\ steps = MaxDeposits
    /\ swarm.vel # <<0, 0>>
    /\ sums.uWeight[<<10, 10>>] # <<0, 0>>
    /\ sums.uSum[<<10, 10>>] # <<0, 0>>
    /\ normOut.velU[<<10, 10>>].num = sums.uSum[<<10, 10>>]
    /\ sums.uWeight[<<10, 11>>] = <<0, 0>>
    /\ normOut.velU[<<10, 11>>].den = <<0, 1>>

\* C23 as stated: no 32-bit density or weight accumulator wraps, for any
\* placement of at most MAX_PARTICLES live particles: after the deposit
\* every accumulator holds the sum of what the particles added to it.
C23_AsStated ==
    pc = "normalize" =>
        LET x == swarm.pos[1]
            y == swarm.pos[2]
            added(parts, k) ==
                LET part(i) == IF parts[i].node = k
                               THEN fixedWeight(parts[i].w16) ELSE 0
                IN  part(1) + part(2) + part(3) + part(4)
            whole(m) ==
                <<(swarm.count \div 65536) * m
                     + ((swarm.count % 65536) * m) \div 65536,
                  ((swarm.count % 65536) * m) % 65536>>
        IN  /\ \A k \in DensityNodes :
                   sums.densitySum[k] =
                      whole(added(splat(x - 2, y - 2, GRID_WIDTH - 1,
                                        GRID_HEIGHT - 1, GRID_WIDTH - 1,
                                        GRID_HEIGHT - 1), k))
            /\ \A k \in SwarmUFaces :
                   sums.uWeight[k] =
                      whole(added(splat(x, y - 2, GRID_WIDTH - 1,
                                        GRID_HEIGHT - 2, GRID_WIDTH,
                                        GRID_HEIGHT - 1), k))
            /\ \A k \in SwarmVFaces :
                   sums.vWeight[k] =
                      whole(added(splat(x - 2, y, GRID_WIDTH - 2,
                                        GRID_HEIGHT - 1, GRID_WIDTH - 1,
                                        GRID_HEIGHT), k))


(***************************************************************************)
(* PressureSpec: the relaxation passes of one pressure solve on a fixed    *)
(* configuration.  Velocities are in units of 0.05 and densities in        *)
(* hundredths, as elsewhere; a divergence is in units of 0.002 and a       *)
(* pressure in units of 0.002 / PScale, so that the divisions by the       *)
(* number of open sides (1 to 4) of PRESSURE_ITERATIONS passes are exact.  *)
(***************************************************************************)
PScale == 12 ^ PRESSURE_ITERATIONS

VFaceIds == 0 .. WIDTH * (HEIGHT + 1) - 1

\* The cells of a configuration that need not be WALL: a row of three
\* inside the border and two cells of the row below.
PressureCells ==
    {i \in CellIds : \/ cellPos(i)[1] \in 1 .. 3 /\ cellPos(i)[2] = 2
                     \/ cellPos(i)[1] \in 1 .. 2 /\ cellPos(i)[2] = 3}

\* WALL; air; water with particles; water whose marker is empty; particles
\* in a cell of no density.
PressureKinds == {"wall", "air", "fluid", "damp", "spray"}

getU(pos) ==
    IF pos[1] >= 0 /\ pos[1] < WIDTH + 1 /\ pos[2] >= 0 /\ pos[2] < HEIGHT
    THEN velUIn[uIndex(pos)] ELSE 0

getV(pos) ==
    IF pos[1] >= 0 /\ pos[1] < WIDTH /\ pos[2] >= 0 /\ pos[2] < HEIGHT + 1
    THEN velVTex[pos[2] * WIDTH + pos[1]] ELSE 0

getP(pIn, pos) == IF ~inBounds(pos) THEN 0 ELSE pIn[cellIndex(pos)]

getSolidVel(pos) == IF ~inBounds(pos) THEN <<0, 0>> ELSE solidVelIn[cellIndex(pos)]

getCount(pos) == IF ~inBounds(pos) THEN 0 ELSE markerBuffer[cellIndex(pos)]

\* select(getCount(pos) > 0u, density >= INTERACT_THRESHOLD, airMix)
isFluid(pos) ==
    IF simSettings.airMixing THEN getDensity(pos) >= INTERACT_THRESHOLD
    ELSE getCount(pos) > 0

\* s: the sides of a cell that are not solid.
openSides(pos) ==
    Cardinality({d \in {<<-1, 0>>, <<1, 0>>, <<0, -1>>, <<0, 1>>} :
                    ~isSolid(getMaterial(Off(pos, d[1], d[2])))})

\* The sum pL + pR + pU + pD of the pressures of the fluid neighbours.
neighbourPressure(pIn, pos) ==
    LET side(dx, dy) ==
            IF /\ isFluid(Off(pos, dx, dy))
               /\ ~isSolid(getMaterial(Off(pos, dx, dy)))
            THEN getP(pIn, Off(pos, dx, dy)) ELSE 0
    IN  side(-1, 0) + side(1, 0) + side(0, -1) + side(0, 1)

\* The divergence of a cell, with the density drift.
divergence(pos) ==
    LET matL == getMaterial(Off(pos, -1, 0))
        matR == getMaterial(Off(pos, 1, 0))
        matU == getMaterial(Off(pos, 0, -1))
        matD == getMaterial(Off(pos, 0, 1))
        uRight == IF isSolid(matR) THEN getSolidVel(Off(pos, 1, 0))[1]
                  ELSE getU(Off(pos, 1, 0))
        uLeft == IF isSolid(matL) THEN getSolidVel(Off(pos, -1, 0))[1]
                 ELSE getU(pos)
        vDown == IF isSolid(matD) THEN getSolidVel(Off(pos, 0, 1))[2]
                 ELSE getV(Off(pos, 0, 1))
        vUp == IF isSolid(matU) THEN getSolidVel(Off(pos, 0, -1))[2]
               ELSE getV(pos)
        nearSolid == isSolid(matL) \/ isSolid(matR) \/ isSolid(matU)
                        \/ isSolid(matD)
        drift == getDensity(pos) - 100
    IN  25 * (uRight - uLeft + vDown - vUp)
           - 4 * (IF nearSolid THEN Max(0, drift) ELSE drift)

\* The pressure pass for one cell, adding the divergence instead of
\* subtracting it.
pressureCell_AddsDivergence(pIn, pos) ==
    IF isSolid(getMaterial(pos)) \/ ~isFluid(pos) THEN 0
    ELSE IF openSides(pos) = 0 THEN 0
    ELSE (neighbourPressure(pIn, pos) + PScale * divergence(pos))
            \div openSides(pos)

\* The pressure pass for one cell: what it stores to pressureOut.
pressureCell(pIn, pos) ==
    IF isSolid(getMaterial(pos)) \/ ~isFluid(pos) THEN 0
    ELSE IF openSides(pos) = 0 THEN 0
    ELSE (neighbourPressure(pIn, pos) - PScale * divergence(pos))
            \div openSides(pos)

PressureInit ==
    \E kind \in [PressureCells -> PressureKinds],
       vel \in {<<0, 0>>, <<20, 0>>, <<0, 20>>}, wet \in {100, 200},
       mix \in BOOLEAN :
        /\ InitGrid([uniformSnapshot(
                        [i \in CellIds |->
                           IF i \in PressureCells /\ kind[i] # "wall"
                           THEN EMPTY ELSE WALL],
                        [frame |-> 0, fluidity |-> 0, age |-> 0,
                         density |-> 0, velU |-> vel[1], fell |-> FALSE])
                     EXCEPT !.density =
                        [i \in CellIds |->
                           IF i \in PressureCells
                                /\ kind[i] \in {"fluid", "damp"}
                           THEN wet ELSE 0]])
        /\ InitParticles([p \in ParticleIds |-> 0],
                         [p \in ParticleIds |-> 0], [i \in CellIds |-> 0])
        /\ textures = [i \in 0 .. 1 |-> createInitialData]
        /\ renderFrame = 0
        /\ simSpeed = 1
        /\ isPaused = FALSE
        /\ paramsBuffer = [x |-> 0, w |-> 50]
        /\ queue = << >>
        /\ evaluated = << >>
        /\ binInv = {}
        /\ swarm = [count |-> 0, pos |-> <<0, 0>>, vel |-> <<0, 0>>]
        /\ sums = << >>
        /\ normOut = << >>
        /\ velVTex = [i \in VFaceIds |-> vel[2]]
        /\ markerBuffer = [i \in CellIds |->
                             IF i \in PressureCells
                                  /\ kind[i] \in {"fluid", "spray"}
                             THEN 1 ELSE 0]
        /\ pressureTex = [b \in 0 .. 1 |-> [i \in CellIds |-> 0]]
        /\ pressureIndex = 0
        /\ simSettings = [airMixing |-> mix]
        /\ InitDriver
        /\ pc = "pressure"

\* One pass of the pressure loop: every cell stores its new pressure to
\* the other pressure texture, and the textures are swapped.
PressurePass ==
    /\ pc = "pressure"
    /\ steps < PRESSURE_ITERATIONS
    /\ pressureTex' =
          [pressureTex EXCEPT ![1 - pressureIndex] =
             [i \in CellIds |->
                pressureCell(pressureTex[pressureIndex], cellPos(i))]]
    /\ pressureIndex' = 1 - pressureIndex
    /\ steps' = steps + 1
    /\ UNCHANGED <<gridVars, fluidVars, sandMove, invoked, twin, pc,
                   frameVars, particleVars, textures, renderFrame, simSpeed,
                   isPaused, paramsBuffer, queue, evaluated, binInv, swarm,
                   sums, normOut, velVTex, markerBuffer, simSettings, driverVars>>

PressureSpec == PressureInit /\ [][PressurePass]_vars

\* The divergence left in a cell by a pressure field: the divergence of the
\* velocities after applyPressure has subtracted the field's gradient
\* across the cell's open sides.
residual(pIn, pos) ==
    PScale * divergence(pos) + openSides(pos) * getP(pIn, pos)
        - neighbourPressure(pIn, pos)

\* The divergence residual over the fluid cells: the sum of the absolute
\* residuals.
totalResidual(pIn) ==
    LET cells == {i \in CellIds : /\ ~isSolid(getMaterial(cellPos(i)))
                                  /\ isFluid(cellPos(i))}
        RECURSIVE sum(_)
        sum(S) == IF S = {} THEN 0
                  ELSE LET i == CHOOSE j \in S : TRUE
                       IN  Abs(residual(pIn, cellPos(i))) + sum(S \ {i})
    IN  sum(cells)

SepPositions == {<<2400, 2500>>, <<2500, 2500>>, <<2650, 2500>>,
                 <<3050, 2500>>}

\* sqrt(dist2), to the thousandth below.
sqrtFloor(dist2) == CHOOSE d \in 0 .. 300 : d * d <= dist2 /\ dist2 < (d + 1) * (d + 1)

\* The loops of separateParticles from their k-th round on: the rounds go
\* through the 3 x 3 cells around baseCell row by row and through the
\* MAX_CELL_PARTICLES slots of each; posBuf is the particlePos buffer as
\* the invocation reads it and pos its local position.
RECURSIVE separateLoop(_, _, _, _, _)
separateLoop(posBuf, idx, baseCell, pos, k) ==
    IF k >= 9 * MAX_CELL_PARTICLES THEN pos
    ELSE LET n == k \div MAX_CELL_PARTICLES
             i == k % MAX_CELL_PARTICLES
             cell == Off(baseCell, (n % 3) - 1, (n \div 3) - 1)
             other == cellParticles[cellIndex(cell) * MAX_CELL_PARTICLES + i]
             delta == <<pos[1] - posBuf[other][1], pos[2] - posBuf[other][2]>>
             dist2 == delta[1] * delta[1] + delta[2] * delta[2]
             dist == sqrtFloor(dist2)
             push == (300 - dist) \div 10
             next ==
                IF ~inBounds(cell) THEN pos
                ELSE IF i >= Min(cellCounts[cellIndex(cell)],
                                 MAX_CELL_PARTICLES) THEN pos
                ELSE IF other = idx THEN pos
                ELSE IF dist2 > 0 /\ dist2 < 300 * 300
                THEN <<pos[1] + (delta[1] * push) \div dist,
                       pos[2] + (delta[2] * push) \div dist>>
                ELSE pos
         IN  separateLoop(posBuf, idx, baseCell, next, k + 1)

\* What a separateParticles invocation of a live particle leaves in
\* particlePos[idx] when it reads the positions posBuf.
separateParticle(posBuf, idx) ==
    LET start == posBuf[idx]
        moved == separateLoop(posBuf, idx,
                              <<start[1] \div 1000, start[2] \div 1000>>,
                              start, 0)
        pos == <<Max(1, Min(moved[1], WIDTH * 1000 - 1)),
                 Max(1, Min(moved[2], HEIGHT * 1000 - 1))>>
        cell == <<pos[1] \div 1000, pos[2] \div 1000>>
    IN  IF inBounds(cell) /\ ~isSolid(getMaterial(cell)) THEN pos ELSE start

SepInit ==
    \E pos \in [BinIds -> SepPositions], mass \in [BinIds -> 0 .. 1],
       rev \in BOOLEAN :
        LET at == [p \in ParticleIds |->
                     IF p \in BinIds THEN pos[p] ELSE <<500, 500>>]
            alive == {p \in BinIds : mass[p] > 0}
            bin(c) == arrival({p \in alive :
                                  cellIndex(<<at[p][1] \div 1000,
                                              at[p][2] \div 1000>>) = c}, rev)
        IN  /\ InitGrid(uniformSnapshot(pileMaterial({}),
                            [frame |-> 0, fluidity |-> 0, age |-> 0,
                             density |-> 0, velU |-> 0, fell |-> FALSE]))
            /\ InitSolo(createInitialData, 50)
            /\ particlePos = at
            /\ particleVel = [p \in ParticleIds |-> <<0, 0>>]
            /\ particleMass = [p \in ParticleIds |->
                                 IF p \in BinIds THEN mass[p] ELSE 0]
            /\ cellCounts = [c \in CellIds |-> Len(bin(c))]
            /\ cellParticles =
                   [k \in 0 .. WIDTH * HEIGHT * MAX_CELL_PARTICLES - 1 |->
                      IF k % MAX_CELL_PARTICLES
                            < Len(bin(k \div MAX_CELL_PARTICLES))
                      THEN bin(k \div MAX_CELL_PARTICLES)
                              [(k % MAX_CELL_PARTICLES) + 1]
                      ELSE 0]
            /\ freeCount = 0
            /\ freeList = << >>
            /\ spawnTex = [c \in CellIds |-> 0]
            /\ spawnInv = << >>
            /\ popped = << >>
            /\ pc = "separating"

\* One invocation of separateParticles, from its first load to its store.
SeparateInvocation ==
    /\ pc = "separating"
    /\ \E idx \in BinIds \ invoked :
         /\ particlePos' =
               IF particleMass[idx] <= 0 THEN particlePos
               ELSE [particlePos EXCEPT
                       ![idx] = separateParticle(particlePos, idx)]
         /\ invoked' = invoked \cup {idx}
    /\ UNCHANGED <<gridVars, fluidVars, sandMove, twin, steps, pc, frameVars,
                   particleVel, particleMass, cellCounts, cellParticles,
                   freeCount, freeList, spawnTex, spawnInv, popped,
                   soloVars>>

SepSpec == SepInit /\ [][SeparateInvocation]_vars

\* C25 as stated: the particle positions after a separation pass do not
\* depend on the order of the invocations, because no invocation reads a
\* position another invocation of the dispatch may write: what an invocation
\* stores never changes what an invocation that has yet to run will store.
C25_AsStated ==
    [][\A idx \in invoked' \ invoked :
          \A other \in BinIds \ invoked' :
              particleMass[other] > 0 =>
                  separateParticle(particlePos', other)
                     = separateParticle(particlePos, other)]_vars


(***************************************************************************)
(* ScanSpec: the bin, free-list and spawn passes of up to MaxScans frames  *)
(* that are paused (no pass of a paused frame moves a particle), the       *)
(* buildFreeList dispatch one invocation at a time.  Here freeList is the  *)
(* whole buffer: clearFreeList resets the counter only, and the entries    *)
(* of earlier frames stay in the list.  Nearly all slots are live, in one  *)
(* cell, and requests fall on the top row.                                 *)
(***************************************************************************)
ScanRequests == {0, ERASER, WATER}

scans_Negative(idx) == particleMass[idx] < 0

\* if (particleMass[idx] <= 0.0)
scans(idx) == particleMass[idx] <= 0

ScanInit ==
    \E n \in MAX_PARTICLES - 3 .. MAX_PARTICLES, stale \in {0, 2},
       req \in [TopRow -> ScanRequests] :
        /\ InitGrid(uniformSnapshot(sparseMaterial([i \in TopRow |-> EMPTY]),
                        [frame |-> 0, fluidity |-> 0, age |-> 0,
                         density |-> 0, velU |-> 0, fell |-> FALSE]))
        /\ InitSolo(createInitialData, 50)
        /\ particlePos = [p \in ParticleIds |-> cellIndex(<<1, 1>>)]
        /\ particleVel = [p \in ParticleIds |-> <<0, 0>>]
        /\ particleMass = [p \in ParticleIds |-> IF p < n THEN 1 ELSE 0]
        /\ cellCounts = [c \in CellIds |-> 0]
        /\ cellParticles = [c \in CellIds |-> << >>]
        /\ freeCount = stale
        /\ freeList = [k \in 1 .. MAX_PARTICLES |-> 0]
        /\ spawnTex = [c \in CellIds |-> IF c \in TopRow THEN req[c] ELSE 0]
        /\ spawnInv = << >>
        /\ popped = << >>
        /\ pc = "bin"

\* clearFreeList: invocation 0 stores 0 in the counter.
ClearFreeList ==
    /\ pc = "free"
    /\ freeCount' = 0
    /\ invoked' = {}
    /\ pc' = "scanning"
    /\ UNCHANGED soloVars
    /\ UNCHANGED <<gridVars, fluidVars, sandMove, twin, steps, frameVars,
                   particlePos, particleVel, particleMass, cellCounts,
                   cellParticles, freeList, spawnTex, spawnInv, popped>>

\* One invocation of buildFreeList that finds its slot dead: the atomicAdd
\* and the store at the slot it returned (no other invocation is handed that
\* slot, and nothing reads the list during the dispatch).  The invocations
\* of live slots return without a store.
BuildFreeListInvocation ==
    /\ pc = "scanning"
    /\ \E idx \in ParticleIds \ invoked :
         /\ scans(idx)
         /\ freeCount' = freeCount + 1
         /\ freeList' = IF freeCount < MAX_PARTICLES
                        THEN [freeList EXCEPT ![freeCount + 1] = idx]
                        ELSE freeList
         /\ invoked' = invoked \cup {idx}
    /\ UNCHANGED soloVars
    /\ UNCHANGED <<gridVars, fluidVars, sandMove, twin, steps, frameVars, pc,
                   particlePos, particleVel, particleMass, cellCounts,
                   cellParticles, spawnTex, spawnInv, popped>>

\* The dispatch is over when every invocation has returned; spawn is next.
BuildFreeListEnd ==
    /\ pc = "scanning"
    /\ \A idx \in ParticleIds \ invoked : ~scans(idx)
    /\ invoked' = {}
    /\ pc' = "spawn"
    /\ UNCHANGED soloVars
    /\ UNCHANGED <<gridVars, fluidVars, sandMove, twin, steps, frameVars,
                   particleVars>>

\* A paused frame ends after the spawn pass; the next one uploads the
\* requests recorded meanwhile.
ScanAgain ==
    /\ pc = "spawned"
    /\ frames < MaxScans - 1
    /\ frames' = frames + 1
    /\ \E req \in [TopRow -> ScanRequests] :
         spawnTex' = [c \in CellIds |-> IF c \in TopRow THEN req[c] ELSE 0]
    /\ pc' = "bin"
    /\ UNCHANGED soloVars
    /\ UNCHANGED <<gridVars, fluidVars, schedVars, paused, lastPass,
                   particlePos, particleVel, particleMass, cellCounts,
                   cellParticles, freeCount, freeList, spawnInv, popped>>

ScanNext ==
    \/ Bin
    \/ ClearFreeList
    \/ BuildFreeListInvocation
    \/ BuildFreeListEnd
    \/ SpawnBegin
    \/ PopLoad
    \/ PopIterate
    \/ SpawnEnd
    \/ ScanAgain

ScanSpec == ScanInit /\ [][ScanNext]_vars

\* The slots listed below the counter.
listed == {freeList[k] : k \in 1 .. Min(Max(freeCount, 0), MAX_PARTICLES)}

\* Between two rebuilds the list is not written, and a slot that comes
\* alive was listed below the counter.
allocatesListed ==
    pc \in {"popping", "spawned", "bin", "free"} =>
        /\ freeList' = freeList
        /\ \A p \in ParticleIds :
              (particleMass[p] <= 0 /\ particleMass'[p] > 0) => p \in listed

\* C26: when the spawn pass starts, whatever the order of the scanning
\* invocations, freeCount is the number of dead slots and the entries below
\* it are the dead slots, each once, and no live slot; a slot killed by the
\* spawn pass is not listed and is not allocated before the next rebuild.
C26_FreeListExact ==
    /\ [](pc = "spawn" =>
            /\ freeCount = Cardinality(ParticleIds \ live)
            /\ listed = ParticleIds \ live
            /\ \A j, k \in 1 .. freeCount :
                  freeList[j] = freeList[k] => j = k)
    /\ [](pc \in {"popping", "spawned"} => killed \cap listed = {})
    /\ [][allocatesListed]_vars

\* The second frame's spawn pass starts with slot 0, alive when the first
\* frame's list was built and killed by its spawn pass, listed exactly as
\* the other dead slots are, while another slot is live.
C26_Witness ==
    /\ pc = "spawn"
    /\ frames = 1
    /\ 0 \in listed
    /\ MAX_PARTICLES - 1 \in listed
    /\ live # {}
    /\ freeCount >= 3


(***************************************************************************)
(* The movement rules of the flip-sim automaton, on StepSpec.              *)
(***************************************************************************)
\* The grains of the input that have an EMPTY cell below them and lie in a
\* cell whose density is below the interact threshold.
freeFallers ==
    {i \in CellIds : /\ stepIn[i] = SAND
                     /\ inBounds(Off(cellPos(i), 0, 1))
                     /\ stepIn[cellIndex(Off(cellPos(i), 0, 1))] = EMPTY
                     /\ densityTex[i] < INTERACT_THRESHOLD}

\* C27: straight fall has the highest priority.  A grain whose cell below
\* is EMPTY in the snapshot and that is not wet leaves its cell EMPTY, and
\* the cell below becomes SAND of age 0 with the grain's colour byte,
\* whatever the grain's age, the seed, the fluidity and the other grains
\* that target the same cell.
C27_StraightFallFirst ==
    pc = "stepped" =>
        \A i \in freeFallers :
            LET d == cellIndex(Off(cellPos(i), 0, 1))
            IN  /\ stepOut[i] = EMPTY
                /\ stepOut[d] = SAND
                /\ getSandAge(stepOutMeta[d]) = 0
                /\ getSandColorVar(stepOutMeta[d])
                      = getSandColorVar(stepInMeta[i])

\* A grain falls into a cell that a grain of another colour targets too,
\* and the cell takes the colour of the one that fell.
C27_Witness ==
    /\ pc = "stepped"
    /\ \E i \in freeFallers :
         LET d == cellIndex(Off(cellPos(i), 0, 1))
         IN  /\ stepOut[i] = EMPTY
             /\ carriesColourOf(d, i)
             /\ \E s \in Targeting(d) \ {i} :
                   /\ stepOut[s] = SAND
                   /\ getSandColorVar(stepInMeta[s])
                         # getSandColorVar(stepInMeta[i])

\* The displacement of the grain of input cell i in the step: its movement
\* if it vacated its cell, none if it stayed.
displacement(i) == IF stepOut[i] = EMPTY THEN sandMove[i] ELSE <<0, 0>>

\* C28: in one step every grain is displaced by (0, 1), (1, 1), (-1, 1),
\* (1, 0), (-1, 0) or (0, 0); the cell it moves into lies in the grid and is
\* EMPTY in the input snapshot; a diagonal move has the diagonal-below cell
\* and the sideways neighbour on that side EMPTY; and every SAND cell of the
\* output is a grain that stayed or the destination of a grain that moved.
C28_MovesAreLocal ==
    pc = "stepped" =>
        /\ \A i \in CellIds :
              stepIn[i] = SAND =>
                  LET m == displacement(i)
                      to == Off(cellPos(i), m[1], m[2])
                  IN  /\ m \in {<<0, 1>>, <<1, 1>>, <<-1, 1>>, <<1, 0>>,
                                <<-1, 0>>, <<0, 0>>}
                      /\ inBounds(to)
                      /\ stepOut[cellIndex(to)] = SAND
                      /\ m # <<0, 0>> => stepIn[cellIndex(to)] = EMPTY
                      /\ (m[1] # 0 /\ m[2] # 0) =>
                            /\ inBounds(Off(cellPos(i), m[1], 0))
                            /\ stepIn[cellIndex(Off(cellPos(i), m[1], 0))]
                                  = EMPTY
        /\ \A d \in CellIds :
              stepOut[d] = SAND =>
                  \/ stepIn[d] = SAND /\ displacement(d) = <<0, 0>>
                  \/ stepIn[d] = EMPTY /\ Cardinality(Vacated(d)) = 1

\* A step in which one grain falls diagonally and another, whose
\* diagonal-below cell is EMPTY behind a neighbour that is not, does not
\* move at all.
C28_Witness ==
    /\ pc = "stepped"
    /\ \E i \in CellIds :
          stepIn[i] = SAND /\ displacement(i)[1] # 0 /\ displacement(i)[2] = 1
    /\ \E i \in CellIds :
          /\ stepIn[i] = SAND
          /\ sandMove[i] = <<0, 0>>
          /\ \E dx \in {-1, 1} :
                /\ stepIn[cellIndex(Off(cellPos(i), dx, 1))] = EMPTY
                /\ stepIn[cellIndex(Off(cellPos(i), dx, 0))] # EMPTY

\* The material of the input snapshot at pos, WALL outside the grid.
stepInAt(pos) == IF inBounds(pos) THEN stepIn[cellIndex(pos)] ELSE WALL

\* The grains of the input for which no fall is possible and which the wet
\* hold does not keep: the cell below is not EMPTY and on neither side are
\* the neighbour and the cell below it both EMPTY.
settlers ==
    {i \in CellIds :
        LET at(dx, dy) == stepInAt(Off(cellPos(i), dx, dy))
        IN  /\ stepIn[i] = SAND
            /\ at(0, 1) # EMPTY
            /\ ~(at(-1, 0) = EMPTY /\ at(-1, 1) = EMPTY)
            /\ ~(at(1, 0) = EMPTY /\ at(1, 1) = EMPTY)
            /\ ~(densityTex[i] >= INTERACT_THRESHOLD /\ wetHolds(cellPos(i)))}

\* The settlers with a free path on one side: the two cells on that side
\* are EMPTY and so is the cell below the second.
pathOpen ==
    {i \in settlers :
        \E dx \in {-1, 1} :
            LET at(k, dy) == stepInAt(Off(cellPos(i), k * dx, dy))
            IN  at(1, 0) = EMPTY /\ at(2, 0) = EMPTY /\ at(2, 1) = EMPTY}

settleRollOf(i) == Mod100(hashAt(cellPos(i), params.frame))

\* The threshold in percent from the bands b: the band of the age times the
\* fluidity factor (twice the fluidity, at most 2), halved when wet.
bandThreshold(b, age, wet) ==
    LET base == IF age <= 10 THEN b[1]
                ELSE IF age <= 30 THEN b[2]
                ELSE IF age <= 60 THEN b[3]
                ELSE b[4]
        factor200 == Min(2 * params.sandFluidity, 200)
    IN  IF wet THEN (base * factor200) \div 2 ELSE base * factor200

\* The settle roll decides with the threshold t (in hundredths of a
\* percent): a settler moves only if its roll is below the threshold, and a
\* settler with an open path whose roll is below it moves.
settlesBy(t(_)) ==
    pc = "stepped" =>
        \A i \in settlers :
            /\ sandMove[i] # <<0, 0>> => 100 * settleRollOf(i) < t(i)
            /\ (i \in pathOpen /\ 100 * settleRollOf(i) < t(i)) =>
                   sandMove[i] # <<0, 0>>

\* C29 as stated: the threshold is the band 80, 40, 15 or 3 percent times
\* the fluidity factor, halved when the cell is wet.
C29_AsStated ==
    LET t(i) == bandThreshold(<<80, 40, 15, 3>>, getSandAge(stepInMeta[i]),
                              densityTex[i] >= INTERACT_THRESHOLD)
    IN  settlesBy(t)

\* C29, amended: the threshold is the whole part of the band 60, 30, 12 or
\* 2 percent times the fluidity factor (twice the fluidity, at most 2),
\* halved when the cell is wet, and at most 95; it does not grow with the
\* age and is 0 at fluidity 0.
C29_SettleThreshold ==
    LET t(i) == 100 * Min(95,
                    bandThreshold(<<60, 30, 12, 2>>, getSandAge(stepInMeta[i]),
                                  densityTex[i] >= INTERACT_THRESHOLD)
                        \div 100)
    IN  /\ settlesBy(t)
        /\ \A a \in 0 .. 70, wet \in BOOLEAN :
              /\ maxSettleChance(a + 1, wet) <= maxSettleChance(a, wet)
              /\ params.sandFluidity = 0 => maxSettleChance(a, wet) = 0

\* A settler with an open path stays at a fluidity above 0: its roll is at
\* or above the threshold, and below the band of 80, 40, 15 or 3 percent
\* scaled alike.
C29_Witness ==
    /\ pc = "stepped"
    /\ \E i \in pathOpen :
          LET age == getSandAge(stepInMeta[i])
              wet == densityTex[i] >= INTERACT_THRESHOLD
          IN  /\ params.sandFluidity > 0
              /\ sandMove[i] = <<0, 0>>
              /\ settleRollOf(i) >= maxSettleChance(age, wet)
              /\ 100 * settleRollOf(i)
                    < bandThreshold(<<80, 40, 15, 3>>, age, wet)


(***************************************************************************)
(* Spawn requests in the grid-only automaton, on RenderSpec.               *)
(***************************************************************************)
\* The spawn texture without its requests other than erase.
eraseOnly(spawn) == [c \in CellIds |-> IF spawn[c] = 255 THEN 255 ELSE 0]

\* The grains of tex whose movement, computed from tex, leads into cell c.
arrivals(tex, frame, fluidity, c) ==
    {n \in grains(tex) :
        LET m == gridSandMovement(tex, fluidity, cellPos(n),
                                  hashAt(cellPos(n), frame))
        IN  m # <<0, 0>> /\ Off(cellPos(n), m[1], m[2]) = cellPos(c)}

\* The cells whose request creates material in a step from tex.
served(tex, spawn, frame, fluidity) ==
    {c \in CellIds : /\ spawn[c] > 0 /\ spawn[c] < 255
                     /\ tex[c].type = EMPTY
                     /\ arrivals(tex, frame, fluidity, c) = {}}

\* A compute pass: a request other than erase creates its material, with
\* age 0, in the cells that are EMPTY in the snapshot and that no grain
\* moves into; every other cell is stored as it is without the request; and
\* when nothing is erased the output holds the grains of the input and the
\* grains created, no more and no fewer.
passServesRequests ==
    (pc = "queue" /\ queue # << >> /\ Head(queue).op = "pass") =>
        LET tex == textures[Head(queue).x]
            out == textures'[1 - Head(queue).x]
            frame == paramsBuffer.x
            fluidity == paramsBuffer.w
            into == served(tex, spawnTex, frame, fluidity)
        IN  /\ \A c \in into : out[c].type = spawnTex[c] /\ out[c].age = 0
            /\ \A c \in CellIds \ into :
                  out[c] = gridStepCell(tex, eraseOnly(spawnTex), frame,
                                        fluidity, cellPos(c))
            /\ (\A c \in CellIds : spawnTex[c] # 255) =>
                  Cardinality(grains(out))
                     = Cardinality(grains(tex))
                         + Cardinality({c \in into : spawnTex[c] = G_SAND})

isMovable(mat) == mat \in {G_SAND, G_WATER, G_STEAM, G_LAVA, G_ROCK, G_ICE}

\* rng % 3u for a <<hi, lo>> value (65536 % 3 = 1).
Mod3(h) == (h[1] + h[2]) % 3

getLiquidMovement(tex, world, pos, rng, frame) ==
    LET getCell(dx, dy) == getRawCell(tex, Off(pos, dx, dy)).type
        below == getCell(0, 1)
        left == getCell(-1, 0)
        right == getCell(1, 0)
        belowLeft == getCell(-1, 1)
        belowRight == getCell(1, 1)
        preferLeftSide == ((pos[1] + frame) % 2) = 0
        canSpreadLeft == left = EMPTY
        canSpreadRight == right = EMPTY
        canFallLeft == belowLeft = EMPTY /\ left = EMPTY
        canFallRight == belowRight = EMPTY /\ right = EMPTY
    IN  IF Mod100(rng) > world.gravity THEN <<0, 0>>
        ELSE IF below = EMPTY THEN <<0, 1>>
        ELSE IF canSpreadLeft /\ canSpreadRight
             THEN (IF preferLeftSide THEN <<-1, 0>> ELSE <<1, 0>>)
        ELSE IF canSpreadLeft THEN <<-1, 0>>
        ELSE IF canSpreadRight THEN <<1, 0>>
        ELSE IF canFallLeft /\ canFallRight
             THEN (IF preferLeftSide THEN <<-1, 1>> ELSE <<1, 1>>)
        ELSE IF canFallLeft THEN <<-1, 1>>
        ELSE IF canFallRight THEN <<1, 1>>
        ELSE <<0, 0>>

getGasMovement(tex, world, pos, rng) ==
    LET getCell(dx, dy) == getRawCell(tex, Off(pos, dx, dy)).type
        above == getCell(0, -1)
        aboveLeft == getCell(-1, -1)
        aboveRight == getCell(1, -1)
        left == getCell(-1, 0)
        right == getCell(1, 0)
        canRiseLeft == aboveLeft = EMPTY /\ left = EMPTY
        canRiseRight == aboveRight = EMPTY /\ right = EMPTY
        preferLeftSide == (pos[1] % 2) = 0
    IN  IF above = EMPTY /\ Mod100(rng) < 200 - world.gravity THEN <<0, -1>>
        ELSE IF canRiseLeft /\ canRiseRight
             THEN (IF preferLeftSide THEN <<-1, -1>> ELSE <<1, -1>>)
        ELSE IF canRiseLeft THEN <<-1, -1>>
        ELSE IF canRiseRight THEN <<1, -1>>
        ELSE IF Mod3(rng) = 0 /\ left = EMPTY /\ preferLeftSide THEN <<-1, 0>>
        ELSE IF Mod3(rng) = 0 /\ right = EMPTY /\ ~preferLeftSide THEN <<1, 0>>
        ELSE <<0, 0>>

getSolidFallMovement(tex, pos, rng) ==
    LET getCell(dx, dy) == getRawCell(tex, Off(pos, dx, dy)).type
        canFallLeft == getCell(-1, 1) = EMPTY /\ getCell(-1, 0) = EMPTY
        canFallRight == getCell(1, 1) = EMPTY /\ getCell(1, 0) = EMPTY
    IN  IF getCell(0, 1) = EMPTY THEN <<0, 1>>
        ELSE IF canFallLeft /\ canFallRight
             THEN (IF (pos[1] % 2) = 0 THEN <<-1, 1>> ELSE <<1, 1>>)
        ELSE IF canFallLeft THEN <<-1, 1>>
        ELSE IF canFallRight THEN <<1, 1>>
        ELSE <<0, 0>>

\* getMovement of main.js.
materialMovement(tex, world, fluidity, cellType, pos, rng, frame) ==
    IF cellType = G_SAND THEN gridSandMovement(tex, fluidity, pos, rng)
    ELSE IF cellType \in {G_WATER, G_LAVA}
         THEN getLiquidMovement(tex, world, pos, rng, frame)
    ELSE IF cellType = G_STEAM THEN getGasMovement(tex, world, pos, rng)
    ELSE IF cellType \in {G_ROCK, G_ICE} THEN getSolidFallMovement(tex, pos, rng)
    ELSE <<0, 0>>

applyTemperature(cellType, temp, rng) ==
    IF cellType = G_WATER /\ temp < 0 /\ Mod100(rng) < 3 THEN G_ICE
    ELSE IF cellType = G_WATER /\ temp > 100 /\ Mod100(rng) < 3 THEN G_STEAM
    ELSE IF cellType = G_ICE /\ temp > 0 /\ Mod100(rng) < 5 THEN G_WATER
    ELSE IF cellType = G_STEAM /\ temp < 100 /\ Mod100(rng) < 3 THEN G_WATER
    ELSE IF cellType = G_LAVA /\ temp < -20 /\ Mod100(rng) < 2 THEN G_ROCK
    ELSE IF cellType = G_ROCK /\ temp > 1200 /\ Mod100(rng) < 1 THEN G_LAVA
    ELSE cellType

checkMaterialInteraction(tex, pos, current, rng) ==
    LET near == {getRawCell(tex, Off(pos, 0, 1)).type,
                 getRawCell(tex, Off(pos, 0, -1)).type,
                 getRawCell(tex, Off(pos, -1, 0)).type,
                 getRawCell(tex, Off(pos, 1, 0)).type}
    IN  IF current = G_WATER /\ G_LAVA \in near /\ Mod100(rng) < 50
        THEN G_STEAM
        ELSE IF current = G_LAVA /\ G_WATER \in near /\ Mod100(rng) < 50
        THEN G_ROCK
        ELSE current

\* One invocation of main of main.js with every material: the texel stored
\* for cell pos.  checkIncoming and hasHigherPriorityIncoming go by the
\* movement of the neighbour's material as the input holds it.
mainCell(tex, spawn, frame, fluidity, world, pos) ==
    LET rawCell == getRawCell(tex, pos)
        current == rawCell.type
        rng == hashAt(pos, frame)
        spawnRequest == spawn[cellIndex(pos)]
        movementOf(p) ==
            IF inBounds(p)
            THEN materialMovement(tex, world, fluidity, getRawCell(tex, p).type,
                                  p, hashAt(p, frame), frame)
            ELSE <<0, 0>>
        incoming(dest, fromOffset) ==
            LET fromPos == Off(dest, fromOffset[1], fromOffset[2])
            IN  /\ isMovable(getRawCell(tex, fromPos).type)
                /\ Off(fromPos, movementOf(fromPos)[1],
                       movementOf(fromPos)[2]) = dest
        firstIncoming(dest) ==
            LET order == incomingOrder(dest, frame)
                hits == {k \in 1 .. 8 : incoming(dest, order[k])}
            IN  IF hits = {} THEN 0
                ELSE CHOOSE k \in hits : \A j \in hits : k <= j
        higherPriorityIncoming(destPos, myOffset) ==
            LET order == incomingOrder(destPos, frame)
                mine == {k \in 1 .. 8 : order[k] = myOffset}
                first == firstIncoming(destPos)
            IN  first # 0 /\ \A k \in mine : first < k
        interacted == checkMaterialInteraction(tex, pos, current, rng)
        tempChanged == applyTemperature(current, world.temperature, rng)
        movement0 == movementOf(pos)
        movement ==
            IF movement0 # <<0, 0>>
               /\ higherPriorityIncoming(
                      Off(pos, movement0[1], movement0[2]),
                      <<-movement0[1], -movement0[2]>>)
            THEN <<0, 0>> ELSE movement0
        moved == IF ~isMovable(current) THEN rawCell
                 ELSE IF movement # <<0, 0>> THEN packCell(EMPTY, 0, 0)
                 ELSE packCell(current, rawCell.age + 1, rawCell.color)
        first == firstIncoming(pos)
        incomingRaw ==
            getRawCell(tex, Off(pos, incomingOrder(pos, frame)[first][1],
                                incomingOrder(pos, frame)[first][2]))
    IN  IF spawnRequest = 255 /\ current # EMPTY THEN packCell(EMPTY, 0, 0)
        ELSE IF current = G_WALL THEN rawCell
        ELSE IF isMovable(current) /\ interacted # current
        THEN packCell(interacted, 0, rawCell.color)
        ELSE IF isMovable(current) /\ tempChanged # current
        THEN packCell(tempChanged, 0, rawCell.color)
        ELSE IF current = EMPTY \/ moved.type = EMPTY
        THEN IF first # 0
             THEN packCell(incomingRaw.type, 0, incomingRaw.color)
             ELSE IF current = EMPTY /\ spawnRequest > 0 /\ spawnRequest < 255
             THEN packCell(spawnRequest, 0, hashAt(pos, frame)[2] % 256)
             ELSE moved
        ELSE moved

(***************************************************************************)
(* MatSpec: up to MaxMatSteps steps of that automaton, with no request in  *)
(* the spawn texture, from the initial floor with up to two cells of       *)
(* material above it, at any temperature and gravity of the sliders'       *)
(* ends and defaults.                                                      *)
(***************************************************************************)
MatCells == {c \in CellIds : cellPos(c)[1] \in 1 .. 3 /\ cellPos(c)[2] \in 1 .. 3}
MatKinds == {G_SAND, G_WATER, G_STEAM, G_ICE, G_LAVA, G_ROCK}

MatInit ==
    \E filled \in {f \in SUBSET MatCells : Cardinality(f) \in 1 .. 2},
       f0 \in 0 .. 3, temp \in {-50, 20, 150}, g \in {10, 100} :
      \E kind \in [filled -> MatKinds] :
        /\ InitGrid(uniformSnapshot(buildMaterialState,
                       [frame |-> 0, fluidity |-> 50, age |-> 0, density |-> 0,
                        velU |-> 0, fell |-> FALSE]))
        /\ InitParticles([p \in ParticleIds |-> 0], [p \in ParticleIds |-> 0],
                         [c \in CellIds |-> 0])
        /\ textures = [i \in 0 .. 1 |->
                         [c \in CellIds |->
                            IF c \in filled THEN packCell(kind[c], 0, 0)
                            ELSE createInitialData[c]]]
        /\ renderFrame = f0
        /\ simSpeed = 1
        /\ isPaused = FALSE
        /\ paramsBuffer = [x |-> f0, w |-> 50]
        /\ queue = << >>
        /\ evaluated = << >>
        /\ binInv = {}
        /\ swarm = [count |-> 0, pos |-> <<0, 0>>, vel |-> <<0, 0>>]
        /\ sums = << >>
        /\ normOut = << >>
        /\ velVTex = << >>
        /\ markerBuffer = << >>
        /\ pressureTex = << >>
        /\ pressureIndex = 0
        /\ simSettings = [airMixing |-> FALSE]
        /\ worldParamsBuffer = [gravity |-> g, temperature |-> temp]
        /\ simConfig = [pressureIterations |-> PRESSURE_ITERATIONS,
                        extrapolationIters |-> 0, steps |-> 1,
                        vorticity |-> FALSE, ball |-> FALSE]
        /\ loopAt = [step |-> 0, iter |-> 0, readIndex |-> 0, writeIndex |-> 1]
        /\ passLog = << >>
        /\ latest = [vel |-> -1, p |-> -1]
        /\ pc = "material"

\* One compute pass of render: the step from textures[frame % 2] into the
\* other texture, with frame in params.x, then frame++.
MatStep ==
    /\ pc = "material"
    /\ steps < MaxMatSteps
    /\ textures' = [textures EXCEPT ![1 - (renderFrame % 2)] =
                      [c \in CellIds |->
                         mainCell(textures[renderFrame % 2], spawnTex,
                                  paramsBuffer.x, paramsBuffer.w,
                                  worldParamsBuffer, cellPos(c))]]
    /\ renderFrame' = renderFrame + 1
    /\ paramsBuffer' = [paramsBuffer EXCEPT !.x = renderFrame + 1]
    /\ steps' = steps + 1
    /\ UNCHANGED <<gridVars, fluidVars, sandMove, invoked, twin, pc,
                   particleVars, frameVars, simSpeed, isPaused, queue,
                   evaluated, binInv, flipVars>>

MatSpec == MatInit /\ [][MatStep]_vars

\* The cells of a texture that hold material.
occupied(tex) == {c \in CellIds : tex[c].type # EMPTY}

\* C31 as stated: a step with no spawn or erase request neither duplicates
\* nor loses material: the output holds as many non-EMPTY cells as the
\* input.
C31_AsStated ==
    [][Cardinality(occupied(textures'[renderFrame' % 2]))
          = Cardinality(occupied(textures[renderFrame % 2]))]_vars


(***************************************************************************)
(* IntSpec: the integrate dispatch of a substep, one invocation at a       *)
(* time, then the clear and bin dispatches and one separateParticles       *)
(* dispatch, one invocation at a time.  Positions are in thousandths of a  *)
(* cell as in SepSpec and velocities in thousandths of a cell per second;  *)
(* DT is 1/60, the gravity 9.8 and the viscosity scale 0.03, so a step     *)
(* adds 163 to vel.y, scales the velocity by 2000/2001 and moves the       *)
(* particle by a sixtieth of it.                                           *)
(***************************************************************************)
IntPositions == {<<2400, 2500>>, <<2650, 2500>>, <<2950, 2500>>,
                 <<2500, 3900>>, <<3500, 2500>>}
IntVels == {<<0, 0>>, <<6000, 0>>, <<0, 12000>>, <<-400000, 0>>}
IntPile == {cellIndex(<<3, 2>>)}

\* integrateParticles main up to the clamps: the position and velocity of a
\* live particle after gravity, damping, the advance and the clamps to the
\* domain.
advectParticle(posBuf, velBuf, idx) ==
    LET part(v, n, d) == IF v >= 0 THEN (v * n) \div d ELSE -(((-v) * n) \div d)
        oldPos == posBuf[idx]
        vel1 == <<part(velBuf[idx][1], 2000, 2001),
                  part(velBuf[idx][2] + 163, 2000, 2001)>>
        pos1 == <<oldPos[1] + part(vel1[1], 1, 60),
                  oldPos[2] + part(vel1[2], 1, 60)>>
        lowX == pos1[1] < 1
        highX == pos1[1] > WIDTH * 1000 - 1
        lowY == pos1[2] < 1
        highY == pos1[2] > HEIGHT * 1000 - 1
    IN  [pos |-> <<IF lowX THEN 1 ELSE IF highX THEN WIDTH * 1000 - 1
                   ELSE pos1[1],
                   IF lowY THEN 1 ELSE IF highY THEN HEIGHT * 1000 - 1
                   ELSE pos1[2]>>,
         vel |-> <<IF lowX \/ highX THEN 0 ELSE vel1[1],
                   IF lowY \/ highY THEN 0 ELSE vel1[2]>>]

\* Variant: a particle advected into a solid cell stays there.
integrateParticle_NoPutBack(posBuf, velBuf, idx) ==
    advectParticle(posBuf, velBuf, idx)

\* What an integrateParticles invocation of a live particle stores in
\* particlePos[idx] and particleVel[idx].
integrateParticle(posBuf, velBuf, idx) ==
    LET out == advectParticle(posBuf, velBuf, idx)
        cell == <<out.pos[1] \div 1000, out.pos[2] \div 1000>>
    IN  IF inBounds(cell) /\ isSolid(getMaterial(cell))
        THEN [pos |-> posBuf[idx], vel |-> <<0, 0>>]
        ELSE out

IntInit ==
    \E pos \in [BinIds -> IntPositions], vel \in [{0, 1} -> IntVels],
       m2 \in 0 .. 1 :
        /\ InitGrid(uniformSnapshot(pileMaterial(IntPile),
                        [frame |-> 0, fluidity |-> 0, age |-> 0,
                         density |-> 0, velU |-> 0, fell |-> FALSE]))
        /\ InitSolo(createInitialData, 50)
        /\ particlePos = [p \in ParticleIds |->
                            IF p \in BinIds THEN pos[p] ELSE <<500, 500>>]
        /\ particleVel = [p \in ParticleIds |->
                            IF p \in {0, 1} THEN vel[p] ELSE <<0, 0>>]
        /\ particleMass = [p \in ParticleIds |->
                             IF p \in {0, 1} THEN 1
                             ELSE IF p \in BinIds THEN m2 ELSE 0]
        /\ cellCounts = [c \in CellIds |-> 0]
        /\ cellParticles =
               [k \in 0 .. WIDTH * HEIGHT * MAX_CELL_PARTICLES - 1 |-> 0]
        /\ freeCount = 0
        /\ freeList = << >>
        /\ spawnTex = [c \in CellIds |-> 0]
        /\ spawnInv = << >>
        /\ popped = << >>
        /\ pc = "integrating"

\* One invocation of integrateParticles, from its loads to its stores.
IntegrateInvocation ==
    /\ pc = "integrating"
    /\ \E idx \in BinIds \ invoked :
         LET out == integrateParticle(particlePos, particleVel, idx)
         IN  /\ particlePos' = IF particleMass[idx] <= 0 THEN particlePos
                               ELSE [particlePos EXCEPT ![idx] = out.pos]
             /\ particleVel' = IF particleMass[idx] <= 0 THEN particleVel
                               ELSE [particleVel EXCEPT ![idx] = out.vel]
             /\ invoked' = invoked \cup {idx}
    /\ UNCHANGED <<gridVars, fluidVars, sandMove, twin, steps, pc, frameVars,
                   particleMass, cellCounts, cellParticles,
                   freeCount, freeList, spawnTex, spawnInv, popped,
                   soloVars>>

\* clearParticleGrid and binParticles of the separation loop: the live
\* particles of a cell fill its slots in the order they arrive in.
IntBin ==
    /\ pc = "integrating"
    /\ invoked = BinIds
    /\ \E rev \in BOOLEAN :
         LET bin(c) == arrival({p \in live :
                                  cellIndex(<<particlePos[p][1] \div 1000,
                                              particlePos[p][2] \div 1000>>) = c},
                               rev)
         IN  /\ cellCounts' = [c \in CellIds |-> Len(bin(c))]
             /\ cellParticles' =
                   [k \in 0 .. WIDTH * HEIGHT * MAX_CELL_PARTICLES - 1 |->
                      IF k % MAX_CELL_PARTICLES
                            < Len(bin(k \div MAX_CELL_PARTICLES))
                      THEN bin(k \div MAX_CELL_PARTICLES)
                              [(k % MAX_CELL_PARTICLES) + 1]
                      ELSE 0]
    /\ invoked' = {}
    /\ pc' = "separating"
    /\ UNCHANGED <<gridVars, fluidVars, sandMove, twin, steps, frameVars,
                   particlePos, particleVel, particleMass,
                   freeCount, freeList, spawnTex, spawnInv, popped,
                   soloVars>>

IntNext ==
    \/ IntegrateInvocation
    \/ IntBin
    \/ SeparateInvocation

IntSpec == IntInit /\ [][IntNext]_vars

\* The cell a position lies in.
cellOf(pos) == <<pos[1] \div 1000, pos[2] \div 1000>>

\* An invocation of the integrate or of the separation dispatch treats its
\* particle as C32 says.
keepsOutOfSolids ==
    \A idx \in invoked' \ invoked :
        LET before == particlePos[idx]
            after == particlePos'[idx]
            out == advectParticle(particlePos, particleVel, idx)
        IN  /\ particleMass[idx] <= 0 => after = before
            /\ particleMass[idx] > 0 =>
                 /\ after[1] >= 1 /\ after[1] <= WIDTH * 1000 - 1
                 /\ after[2] >= 1 /\ after[2] <= HEIGHT * 1000 - 1
                 /\ ~isSolid(getMaterial(cellOf(before)))
                       => ~isSolid(getMaterial(cellOf(after)))
                 /\ (pc = "integrating" /\ isSolid(getMaterial(cellOf(out.pos))))
                       => after = before /\ particleVel'[idx] = <<0, 0>>

\* C32: after the integrate pass every live particle lies inside the
\* domain; a particle whose advected position falls in a solid cell is put
\* back where it was; a particle outside the solid cells before the
\* integrate pass or a separation pass is outside them after it; dead
\* particles are not moved.
C32_StaysOutOfSolids == [][keepsOutOfSolids]_vars

\* Both passes are over; one live particle was put back by integrate (its
\* velocity is zero) beside the pile, another moved on.
C32_Witness ==
    /\ pc = "separating"
    /\ invoked = BinIds
    /\ \E p, q \in live :
         /\ particleVel[p] = <<0, 0>>
         /\ cellOf(particlePos[p]) = <<2, 2>>
         /\ particleVel[q] # <<0, 0>>
         /\ ~isSolid(getMaterial(cellOf(particlePos[q])))


(***************************************************************************)
(* AccumSpec: clearGrid and the depositParticles dispatch with the         *)
(* invocations interleaved: an invocation runs depositDensity, depositU    *)
(* and depositV in turn, and between any two of them other invocations     *)
(* may run.  particlePos is in quarter cells as in DepositSpec and the     *)
(* accumulators are kept for every node and face of the grid as integers   *)
(* (three particles do not reach 32 bits), holding what an earlier deposit   *)
(* left in them.  The dispatch runs a second time as after a reseed.       *)
(***************************************************************************)
AccPositions == {<<10, 10>>, <<11, 9>>, <<6, 14>>}
AccVels == <<<<3, -2>>, <<-1, 4>>>>
AccNodes == (0 .. WIDTH - 1) \X (0 .. HEIGHT - 1)
AccVFaces == (0 .. WIDTH - 1) \X (0 .. HEIGHT)

\* The nodes or faces one deposit function of an invocation adds to, with
\* their weights: depositDensity (1), depositU (2), depositV (3).
depositParts(pos, fn) ==
    IF fn = 1 THEN splat(pos[1] - 2, pos[2] - 2, WIDTH - 1, HEIGHT - 1,
                         WIDTH - 1, HEIGHT - 1)
    ELSE IF fn = 2 THEN splat(pos[1], pos[2] - 2, WIDTH - 1, HEIGHT - 2,
                              WIDTH, HEIGHT - 1)
    ELSE splat(pos[1] - 2, pos[2], WIDTH - 2, HEIGHT - 1, WIDTH - 1, HEIGHT)

\* The deposit function an accumulator belongs to and the factor of the
\* weight in what is added to it.
depositFn(buf) == IF buf = "densitySum" THEN 1
                  ELSE IF buf \in {"uSum", "uWeight"} THEN 2 ELSE 3
depositFactor(buf, vel) == IF buf = "uSum" THEN vel[1]
                           ELSE IF buf = "vSum" THEN vel[2] ELSE 1

\* What the four atomicAdds of particle idx to accumulator buf add to
\* entry k.
contribution(buf, idx, k) ==
    LET parts == depositParts(particlePos[idx], depositFn(buf))
        add(i) == IF parts[i].node = k
                  THEN depositFactor(buf, particleVel[idx])
                          * fixedWeight(parts[i].w16)
                  ELSE 0
    IN  add(1) + add(2) + add(3) + add(4)

\* Variant: the accumulators are stored to, not added to.
depositStep_Stores(acc, idx, fn) ==
    [buf \in DOMAIN acc |->
       [k \in DOMAIN acc[buf] |->
          IF depositFn(buf) = fn /\ contribution(buf, idx, k) # 0
          THEN contribution(buf, idx, k) ELSE acc[buf][k]]]

\* The accumulators after one deposit function of the invocation of
\* particle idx.
depositStep(acc, idx, fn) ==
    [buf \in DOMAIN acc |->
       [k \in DOMAIN acc[buf] |->
          IF depositFn(buf) = fn
          THEN acc[buf][k] + contribution(buf, idx, k) ELSE acc[buf][k]]]

AccInit ==
    \E pos \in [BinIds -> AccPositions], first \in 1 .. 2,
       mass \in [BinIds -> 0 .. 1], stale \in {7281} :
      LET vel == [p \in BinIds |-> AccVels[((p + first) % 2) + 1]]
      IN
        /\ InitGrid(uniformSnapshot(pileMaterial({}),
                        [frame |-> 0, fluidity |-> 0, age |-> 0,
                         density |-> 0, velU |-> 0, fell |-> FALSE]))
        /\ particlePos = [p \in ParticleIds |->
                            IF p \in BinIds THEN pos[p] ELSE <<2, 2>>]
        /\ particleVel = [p \in ParticleIds |->
                            IF p \in BinIds THEN vel[p] ELSE <<0, 0>>]
        /\ particleMass = [p \in ParticleIds |->
                             IF p \in BinIds THEN mass[p] ELSE 0]
        /\ cellCounts = [c \in CellIds |-> 0]
        /\ cellParticles = [c \in CellIds |-> << >>]
        /\ freeCount = 0
        /\ freeList = << >>
        /\ spawnTex = [c \in CellIds |-> 0]
        /\ spawnInv = << >>
        /\ popped = << >>
        /\ textures = [i \in 0 .. 1 |-> createInitialData]
        /\ renderFrame = 0
        /\ simSpeed = 1
        /\ isPaused = FALSE
        /\ paramsBuffer = [x |-> 0, w |-> 50]
        /\ queue = << >>
        /\ evaluated = << >>
        /\ binInv = {}
        /\ swarm = [count |-> 0, pos |-> <<0, 0>>, vel |-> <<0, 0>>]
        /\ sums = [densitySum |-> [k \in AccNodes |-> stale],
                   uSum |-> [k \in UFaces |-> -stale],
                   uWeight |-> [k \in UFaces |-> stale],
                   vSum |-> [k \in AccVFaces |-> stale],
                   vWeight |-> [k \in AccVFaces |-> stale]]
        /\ normOut = << >>
        /\ velVTex = << >>
        /\ markerBuffer = << >>
        /\ pressureTex = << >>
        /\ pressureIndex = 0
        /\ simSettings = [airMixing |-> FALSE]
        /\ InitDriver
        /\ pc = "cleargrid"

\* clearGrid: every accumulator is stored as zero.
AccClear ==
    /\ pc = "cleargrid"
    /\ sums' = [buf \in DOMAIN sums |-> [k \in DOMAIN sums[buf] |-> 0]]
    /\ invoked' = {}
    /\ pc' = "depositing"
    /\ UNCHANGED <<gridVars, fluidVars, sandMove, twin, steps, frameVars,
                   particleVars, textures, renderFrame, simSpeed, isPaused,
                   paramsBuffer, queue, evaluated, binInv, swarm, normOut,
                   velVTex, markerBuffer, pressureTex, pressureIndex,
                   simSettings, driverVars>>

\* The next deposit function of one invocation of depositParticles; the
\* invocation of a dead particle returns before the first.
DepositInvocation ==
    /\ pc = "depositing"
    /\ \E idx \in BinIds, fn \in 1 .. 3 :
         /\ <<idx, fn>> \notin invoked
         /\ \A g \in 1 .. fn - 1 : <<idx, g>> \in invoked
         /\ sums' = IF particleMass[idx] <= 0 THEN sums
                    ELSE depositStep(sums, idx, fn)
         /\ invoked' = invoked \cup {<<idx, fn>>}
    /\ UNCHANGED <<gridVars, fluidVars, sandMove, twin, steps, pc, frameVars,
                   particleVars, textures, renderFrame, simSpeed, isPaused,
                   paramsBuffer, queue, evaluated, binInv, swarm, normOut,
                   velVTex, markerBuffer, pressureTex, pressureIndex,
                   simSettings, driverVars>>

\* The dispatch is over; after a reseed clearGrid and depositParticles run
\* again.
AccAgain ==
    /\ pc = "depositing"
    /\ invoked = BinIds \X (1 .. 3)
    /\ steps < MaxDeposits - 1
    /\ steps' = steps + 1
    /\ pc' = "cleargrid"
    /\ UNCHANGED <<gridVars, fluidVars, sandMove, invoked, twin, frameVars,
                   particleVars, soloVars>>

AccNext == AccClear \/ DepositInvocation \/ AccAgain

AccSpec == AccInit /\ [][AccNext]_vars

RECURSIVE total(_, _, _)
total(S, buf, k) ==
    IF S = {} THEN 0
    ELSE LET idx == CHOOSE q \in S : TRUE
         IN  contribution(buf, idx, k) + total(S \ {idx}, buf, k)

\* C33: during and after a deposit dispatch every accumulator entry is the
\* sum of the contributions of the live particles whose deposit function
\* for it has run, whatever the order: at the end of the dispatch the sum
\* over all live particles, with nothing from dead ones and nothing left
\* from before the clear.
C33_SumOfContributions ==
    pc = "depositing" =>
        \A buf \in DOMAIN sums : \A k \in DOMAIN sums[buf] :
            sums[buf][k]
               = total({p \in live : <<p, depositFn(buf)>> \in invoked}, buf, k)

\* The second dispatch is over; two live particles at different positions
\* and a dead one ran, and the live ones added to a common face.
C33_Witness ==
    /\ pc = "depositing"
    /\ steps = MaxDeposits - 1
    /\ invoked = BinIds \X (1 .. 3)
    /\ particleMass[0] > 0 /\ particleMass[1] > 0 /\ particleMass[2] <= 0
    /\ particlePos[0] # particlePos[1]
    /\ \E k \in UFaces :
         /\ contribution("uWeight", 0, k) > 0
         /\ contribution("uWeight", 1, k) > 0
         /\ sums.uWeight[k] = contribution("uWeight", 0, k)
                                 + contribution("uWeight", 1, k)
         /\ sums.uSum[k] = contribution("uSum", 0, k)
                               + contribution("uSum", 1, k)


(***************************************************************************)
(* PipeSpec: the passes frame() encodes that read or write the grid        *)
(* velocity or the pressure, with the bind group each is given.  A bind    *)
(* group is the record of the buffer indices it binds: the velocity read   *)
(* (vel) and written (velOut), the pressure read (p) and written (pOut),   *)
(* -1 for none.  The passes of one command encoder run in the order they   *)
(* are encoded.  Pause, speed, vorticity and ball are set between frames;  *)
(* the iteration counts are fixed for a run.                               *)
(***************************************************************************)
noBuffers == [vel |-> -1, velOut |-> -1, p |-> -1, pOut |-> -1]

sandGroups(mi, vi) == [noBuffers EXCEPT !.vel = vi]
normalizeGroup == [noBuffers EXCEPT !.velOut = 0]
maskVelGroups(mi, vi) == [noBuffers EXCEPT !.vel = vi, !.velOut = vi]
dampVelGroups(vi) == [noBuffers EXCEPT !.vel = vi, !.velOut = vi]
vorticityGroups(vi) == [noBuffers EXCEPT !.vel = vi]

\* Variant: the relaxation reads and writes one pressure texture.
pressureGroups_InPlace(mi, vi, pi) ==
    [noBuffers EXCEPT !.vel = vi, !.p = pi, !.pOut = pi]

pressureGroups(mi, vi, pi) ==
    [noBuffers EXCEPT !.vel = vi, !.p = pi, !.pOut = 1 - pi]

applyGroups(mi, vi, pi) ==
    [noBuffers EXCEPT !.vel = vi, !.velOut = 1 - vi, !.p = pi]

\* Variant: the extrapolation writes the buffer it reads.
extrapolateGroups_InPlace(mi, vi, wi) ==
    [noBuffers EXCEPT !.vel = vi, !.velOut = vi]

extrapolateGroups(mi, vi, wi) == [noBuffers EXCEPT !.vel = vi, !.velOut = wi]
transferGroups(mi, vi) == [noBuffers EXCEPT !.vel = vi]
renderGroups(mi, pi, vi) == [noBuffers EXCEPT !.vel = vi, !.p = pi]

\* The log and the buffers last written after the passes of run, a sequence
\* of <<name, bind group>>, have run in turn.
RECURSIVE dispatched(_, _, _)
dispatched(log, last, run) ==
    IF run = << >> THEN [log |-> log, last |-> last]
    ELSE LET g == Head(run)[2]
             entry == [pass |-> Head(run)[1], vel |-> g.vel,
                       velOut |-> g.velOut, p |-> g.p, pOut |-> g.pOut,
                       velLatest |-> last.vel, pLatest |-> last.p,
                       iter |-> Head(run)[3]]
             now == [vel |-> IF g.velOut # -1 THEN g.velOut ELSE last.vel,
                     p |-> IF g.pOut # -1 THEN g.pOut ELSE last.p]
         IN  dispatched(Append(log, entry), now, Tail(run))

PipeInit ==
    \E n \in 1 .. PRESSURE_ITERATIONS, e \in 0 .. MaxExtrapolation :
        /\ InitGrid(uniformSnapshot(pileMaterial({}),
                        [frame |-> 0, fluidity |-> 0, age |-> 0,
                         density |-> 0, velU |-> 0, fell |-> FALSE]))
        /\ InitParticles([p \in ParticleIds |-> 0], [p \in ParticleIds |-> 0],
                         [c \in CellIds |-> 0])
        /\ textures = [i \in 0 .. 1 |-> createInitialData]
        /\ renderFrame = 0
        /\ simSpeed = 1
        /\ isPaused = FALSE
        /\ paramsBuffer = [x |-> 0, w |-> 50]
        /\ queue = << >>
        /\ evaluated = << >>
        /\ binInv = {}
        /\ swarm = [count |-> 0, pos |-> <<0, 0>>, vel |-> <<0, 0>>]
        /\ sums = << >>
        /\ normOut = << >>
        /\ velVTex = << >>
        /\ markerBuffer = << >>
        /\ pressureTex = << >>
        /\ pressureIndex = 0
        /\ simSettings = [airMixing |-> FALSE]
        /\ worldParamsBuffer = [gravity |-> 100, temperature |-> 20]
        /\ simConfig = [pressureIterations |-> n, extrapolationIters |-> e,
                        steps |-> 1, vorticity |-> FALSE, ball |-> FALSE]
        /\ loopAt = [step |-> 0, iter |-> 0, readIndex |-> 0, writeIndex |-> 1]
        /\ passLog = << >>
        /\ latest = [vel |-> -1, p |-> -1]
        /\ pc = "frame"

pipeFixed == <<materialTex, sandMetaTex, solidVelTex, densityTex, velUTex,
               params, schedVars, particleVars, lastPass, textures,
               renderFrame, simSpeed, isPaused, paramsBuffer, queue,
               evaluated, binInv, swarm, sums, normOut, velVTex, markerBuffer,
               pressureTex, simSettings, worldParamsBuffer>>

\* The head of frame(): the automaton step, unless paused, reads the grid
\* velocity; matIndex is swapped after it and after the spawn pass.
PipeFrameStart ==
    /\ pc = "frame"
    /\ frames < MaxPipeFrames
    /\ \E pz \in BOOLEAN, sp \in 0 .. MaxSpeed, vort \in BOOLEAN,
          ball \in BOOLEAN :
         LET out == dispatched(<< >>, latest,
                       IF pz THEN << >>
                       ELSE << <<"sandStep", sandGroups(matIndex, velIndex), 0>> >>)
         IN  /\ paused' = pz
             /\ simConfig' = [simConfig EXCEPT !.steps = Max(1, sp),
                                               !.vorticity = vort,
                                               !.ball = ball]
             /\ passLog' = out.log
             /\ latest' = out.last
             /\ matIndex' = IF pz THEN 1 - matIndex ELSE matIndex
             /\ pc' = IF pz THEN "render" ELSE "deposit"
    /\ loopAt' = [loopAt EXCEPT !.step = 0, !.iter = 0]
    /\ frames' = frames + 1
    /\ UNCHANGED <<pipeFixed, velIndex, pressureIndex>>

\* normalizeGrid, velIndex = 0, the mask pass, pressureIndex = 0.
PipeNormalize ==
    /\ pc = "deposit"
    /\ LET out == dispatched(passLog, latest,
                     << <<"normalize", normalizeGroup, 0>>,
                        <<"mask", maskVelGroups(matIndex, 0), 0>> >>)
       IN  passLog' = out.log /\ latest' = out.last
    /\ velIndex' = 0
    /\ pressureIndex' = 0
    /\ loopAt' = [loopAt EXCEPT !.iter = 0]
    /\ pc' = "pressure"
    /\ UNCHANGED <<pipeFixed, matIndex, paused, frames, simConfig>>

\* One round of the pressure loop.
PipePressure ==
    /\ pc = "pressure"
    /\ loopAt.iter < simConfig.pressureIterations
    /\ LET out == dispatched(passLog, latest,
                     << <<"pressure",
                          pressureGroups(matIndex, velIndex, pressureIndex),
                          loopAt.iter>> >>)
       IN  passLog' = out.log /\ latest' = out.last
    /\ pressureIndex' = 1 - pressureIndex
    /\ loopAt' = [loopAt EXCEPT !.iter = @ + 1]
    /\ UNCHANGED <<pipeFixed, matIndex, velIndex, paused, frames, simConfig, pc>>

\* After the loop: applyPressure, velIndex = 1, the mask pass, and the
\* locals of the extrapolation loop.
PipeApply ==
    /\ pc = "pressure"
    /\ loopAt.iter >= simConfig.pressureIterations
    /\ LET out == dispatched(passLog, latest,
                     << <<"applyPressure",
                          applyGroups(matIndex, velIndex, pressureIndex), 0>>,
                        <<"mask", maskVelGroups(matIndex, 1), 0>> >>)
       IN  passLog' = out.log /\ latest' = out.last
    /\ velIndex' = 1
    /\ loopAt' = [loopAt EXCEPT !.iter = 0, !.readIndex = 1, !.writeIndex = 0]
    /\ pc' = "extrapolate"
    /\ UNCHANGED <<pipeFixed, matIndex, pressureIndex, paused, frames,
                   simConfig>>

\* One round of the extrapolation loop.
PipeExtrapolate ==
    /\ pc = "extrapolate"
    /\ loopAt.iter < simConfig.extrapolationIters
    /\ LET out == dispatched(passLog, latest,
                     << <<"extrapolate",
                          extrapolateGroups(matIndex, loopAt.readIndex,
                                            loopAt.writeIndex),
                          loopAt.iter>> >>)
       IN  passLog' = out.log /\ latest' = out.last
    /\ loopAt' = [loopAt EXCEPT !.iter = @ + 1,
                                !.readIndex = loopAt.writeIndex,
                                !.writeIndex = loopAt.readIndex]
    /\ UNCHANGED <<pipeFixed, matIndex, velIndex, pressureIndex, paused,
                   frames, simConfig, pc>>

\* The rest of the substep: velIndex = readIndex and a mask pass if there
\* were extrapolation passes, damp, vorticity and ball passes if enabled,
\* transfer; then the next substep or the end of the compute pass.
PipeTransfer ==
    /\ pc = "extrapolate"
    /\ loopAt.iter >= simConfig.extrapolationIters
    /\ LET vi == IF simConfig.extrapolationIters > 0 THEN loopAt.readIndex
                 ELSE velIndex
           out == dispatched(passLog, latest,
                     (IF simConfig.extrapolationIters > 0
                      THEN << <<"mask", maskVelGroups(matIndex, vi), 0>> >>
                      ELSE << >>)
                     \o << <<"damp", dampVelGroups(vi), 0>> >>
                     \o (IF simConfig.vorticity
                         THEN << <<"vorticity", vorticityGroups(vi), 0>>,
                                 <<"applyVorticity", dampVelGroups(vi), 0>>,
                                 <<"mask", maskVelGroups(matIndex, vi), 0>> >>
                         ELSE << >>)
                     \o (IF simConfig.ball
                         THEN << <<"ballForce", dampVelGroups(vi), 0>>,
                                 <<"mask", maskVelGroups(matIndex, vi), 0>> >>
                         ELSE << >>)
                     \o << <<"transfer", transferGroups(matIndex, vi), 0>> >>)
       IN  /\ passLog' = out.log
           /\ latest' = out.last
           /\ velIndex' = vi
    /\ loopAt' = [loopAt EXCEPT !.step = @ + 1, !.iter = 0]
    /\ pc' = IF loopAt.step + 1 < simConfig.steps THEN "deposit" ELSE "render"
    /\ UNCHANGED <<pipeFixed, matIndex, pressureIndex, paused, frames,
                   simConfig>>

\* The render pass of the frame.
PipeRender ==
    /\ pc = "render"
    /\ LET out == dispatched(passLog, latest,
                     << <<"render",
                          renderGroups(matIndex, pressureIndex, velIndex), 0>> >>)
       IN  passLog' = out.log /\ latest' = out.last
    /\ pc' = "frame"
    /\ UNCHANGED <<pipeFixed, matIndex, velIndex, pressureIndex, paused,
                   frames, simConfig, loopAt>>

PipeNext ==
    \/ PipeFrameStart
    \/ PipeNormalize
    \/ PipePressure
    \/ PipeApply
    \/ PipeExtrapolate
    \/ PipeTransfer
    \/ PipeRender

PipeSpec == PipeInit /\ [][PipeNext]_vars

\* C34: each relaxation iteration reads the pressure buffer the iteration
\* before it wrote (the first reads buffer 0) and writes the other buffer;
\* applyPressure reads the buffer the last iteration wrote, and so does the
\* render pass once a pressure buffer has been written.
C34_PressurePingPong ==
    \A i \in DOMAIN passLog :
        LET e == passLog[i]
        IN  /\ e.pass = "pressure" =>
                 /\ e.pOut = 1 - e.p
                 /\ e.iter = 0 => e.p = 0
                 /\ e.iter > 0 => /\ passLog[i - 1].pass = "pressure"
                                  /\ passLog[i - 1].pOut = e.p
            /\ e.pass = "applyPressure" =>
                 /\ passLog[i - 1].pass = "pressure"
                 /\ passLog[i - 1].iter = simConfig.pressureIterations - 1
                 /\ passLog[i - 1].pOut = e.p
            /\ e.pass = "render" => e.pLatest \in {-1, e.p}

\* A frame with two substeps is over: the last substep ran all its
\* iterations, applyPressure and the render pass read what the last one
\* wrote.
C34_Witness ==
    /\ pc = "frame"
    /\ simConfig.steps = 2
    /\ simConfig.pressureIterations = PRESSURE_ITERATIONS
    /\ Len(passLog) > 0
    /\ passLog[Len(passLog)].pass = "render"
    /\ passLog[Len(passLog)].p = PRESSURE_ITERATIONS % 2
    /\ passLog[Len(passLog)].pLatest = PRESSURE_ITERATIONS % 2
    /\ Cardinality({i \in DOMAIN passLog : passLog[i].pass = "pressure"})
          = 2 * PRESSURE_ITERATIONS

\* C35: every pass that reads the grid velocity reads the buffer written
\* last; normalize writes buffer 0, applyPressure reads 0 and writes 1,
\* each extrapolation pass reads what the pass before it wrote and writes
\* the other buffer, and outside the extrapolation loop velIndex names the
\* buffer written last.
C35_VelocityPingPong ==
    /\ \A i \in DOMAIN passLog :
         LET e == passLog[i]
         IN  /\ e.vel # -1 => e.velLatest \in {-1, e.vel}
             /\ e.pass = "normalize" => e.velOut = 0
             /\ e.pass = "applyPressure" => e.vel = 0 /\ e.velOut = 1
             /\ e.pass = "extrapolate" => e.velOut = 1 - e.vel
    /\ (pc # "extrapolate" /\ latest.vel # -1) => velIndex = latest.vel

\* A frame is over in which the last substep ran an odd number of
\* extrapolation passes, more than one: transfer and render read buffer 0.
C35_Witness ==
    /\ pc = "frame"
    /\ simConfig.extrapolationIters = 3
    /\ Len(passLog) > 0
    /\ passLog[Len(passLog)].pass = "render"
    /\ passLog[Len(passLog)].vel = 0
    /\ velIndex = 0
    /\ \E i \in DOMAIN passLog :
          passLog[i].pass = "transfer" /\ passLog[i].vel = 0


(***************************************************************************)
(* ShowSpec: the grid-only driver (main.js) with the textures its passes   *)
(* bind: the pause button, the speed slider and render, which encodes      *)
(* simSpeed compute passes unless paused and the render pass, and submits  *)
(* them; they run in that order.  A bind group is the record of the        *)
(* texture it reads and the one it writes, -1 for none.                    *)
(***************************************************************************)
computeBindGroups(i) == [read |-> i, wrote |-> 1 - i]

\* Variant: the render pass is bound to the texture of its own index.
renderBindGroups_Straight(i) == [read |-> i, wrote |-> -1]

renderBindGroups(i) == [read |-> 1 - i, wrote |-> -1]

\* The log and the texture last written after the passes of run, a sequence
\* of <<name, bind group>>, have run in turn.
RECURSIVE submitted(_, _, _)
submitted(log, last, run) ==
    IF run = << >> THEN [log |-> log, last |-> last]
    ELSE LET g == Head(run)[2]
         IN  submitted(Append(log, [pass |-> Head(run)[1], read |-> g.read,
                                    wrote |-> g.wrote, gridLatest |-> last]),
                       IF g.wrote # -1 THEN g.wrote ELSE last, Tail(run))

ShowInit ==
    /\ InitGrid(uniformSnapshot(buildMaterialState,
                   [frame |-> 0, fluidity |-> 50, age |-> 0, density |-> 0,
                    velU |-> 0, fell |-> FALSE]))
    /\ InitParticles([p \in ParticleIds |-> 0], [p \in ParticleIds |-> 0],
                     [c \in CellIds |-> 0])
    /\ textures = [i \in 0 .. 1 |-> createInitialData]
    /\ renderFrame = 0
    /\ simSpeed = 4
    /\ isPaused = FALSE
    /\ paramsBuffer = [x |-> 0, w |-> 50]
    /\ queue = << >>
    /\ evaluated = << >>
    /\ binInv = {}
    /\ swarm = [count |-> 0, pos |-> <<0, 0>>, vel |-> <<0, 0>>]
    /\ sums = << >>
    /\ normOut = << >>
    /\ velVTex = << >>
    /\ markerBuffer = << >>
    /\ pressureTex = << >>
    /\ pressureIndex = 0
    /\ simSettings = [airMixing |-> FALSE]
    /\ worldParamsBuffer = [gravity |-> 100, temperature |-> 20]
    /\ simConfig = [pressureIterations |-> PRESSURE_ITERATIONS,
                    extrapolationIters |-> 0, steps |-> 1,
                    vorticity |-> FALSE, ball |-> FALSE]
    /\ loopAt = [step |-> 0, iter |-> 0, readIndex |-> 0, writeIndex |-> 1]
    /\ passLog = << >>
    /\ latest = [grid |-> -1]
    /\ pc = "render"

showFixed == <<gridVars, fluidVars, schedVars, pc, particleVars, paused,
               lastPass, textures, paramsBuffer, queue, evaluated, binInv,
               swarm, sums, normOut, velVTex, markerBuffer, pressureTex,
               pressureIndex, simSettings, worldParamsBuffer, simConfig,
               loopAt>>

\* The pause button.
PauseButton ==
    /\ isPaused' = ~isPaused
    /\ UNCHANGED <<showFixed, renderFrame, simSpeed, frames, passLog, latest>>

\* The speed slider.
SpeedSlider ==
    /\ \E value \in 0 .. MaxShowSpeed : simSpeed' = value
    /\ UNCHANGED <<showFixed, renderFrame, isPaused, frames, passLog, latest>>

\* render: the compute passes and the render pass of one frame, and the
\* advance of frame.
renderPasses ==
    /\ frames < MaxShowFrames
    /\ LET readIndex == renderFrame % 2
           computes ==
              IF isPaused THEN << >>
              ELSE [step \in 1 .. simSpeed |->
                      <<"compute",
                        computeBindGroups((renderFrame + step - 1) % 2)>>]
           renderIndex == IF isPaused THEN readIndex
                          ELSE (renderFrame + simSpeed) % 2
           out == submitted(<< >>, latest.grid,
                     computes \o << <<"render",
                                      renderBindGroups((renderIndex + 1) % 2)>> >>)
       IN  /\ passLog' = out.log
           /\ latest' = [grid |-> out.last]
    /\ renderFrame' = IF isPaused THEN renderFrame ELSE renderFrame + simSpeed
    /\ frames' = frames + 1
    /\ UNCHANGED <<showFixed, simSpeed, isPaused>>

ShowNext == PauseButton \/ SpeedSlider \/ renderPasses

ShowSpec == ShowInit /\ [][ShowNext]_vars

\* C36: every compute pass writes the texture it does not read and reads
\* the texture the pass before it wrote, in this frame or an earlier one;
\* the render pass shows the texture written last.
C36_ReadsLastWritten ==
    \A i \in DOMAIN passLog :
        LET e == passLog[i]
        IN  /\ e.gridLatest \in {-1, e.read}
            /\ e.pass = "compute" => e.wrote = 1 - e.read /\ e.wrote # e.read

\* The third frame ran at speed 3 after two frames that ran one step
\* between them: its first pass read what that step wrote.
C36_Witness ==
    /\ frames = 3
    /\ ~isPaused
    /\ simSpeed = 3
    /\ renderFrame = 4
    /\ Len(passLog) = 4
    /\ passLog[1].pass = "compute"
    /\ passLog[1].gridLatest = 1
    /\ passLog[1].read = 1
    /\ passLog[4].pass = "render"
    /\ passLog[4].read = 0


(***************************************************************************)
(* SettleSpec: the automaton step of the fluid solver applied again and    *)
(* again with no spawn request, from every grid with up to MaxSettleCells  *)
(* SAND cells inside the border on a ROCK terrain.  A run has a fluidity   *)
(* of 0 or 1; each step runs with any seed (params.frame) up to MaxSeed on *)
(* a dry or a wet grid.  Ages above 61 are kept as 61: the automaton       *)
(* compares the age with 10, 30 and 60 only.                               *)
(***************************************************************************)
\* The ROCK terrains of a settling run: any cells of the row above the
\* bottom wall, which leaves ledges with a hole beside them.
SettleLedges == SUBSET FloorRow

SettleGrids ==
    UNION {{[i \in ledge \cup sandAt |->
               IF i \in ledge THEN ROCK ELSE SAND] :
              sandAt \in {f \in SUBSET (Interior \ ledge) :
                             Cardinality(f) <= MaxSettleCells}} :
           ledge \in SettleLedges}

SettleInit ==
    \E g \in SettleGrids, f \in 0 .. MaxSeed, fl \in {0, 100},
       wetness \in {0, INTERACT_THRESHOLD} :
        /\ InitGrid(uniformSnapshot(sparseMaterial(g),
                        [frame |-> f, fluidity |-> fl, age |-> 0,
                         density |-> wetness, velU |-> 0, fell |-> FALSE]))
        /\ InitParticles([p \in ParticleIds |-> 0],
                         [p \in ParticleIds |-> 0], [i \in CellIds |-> 0])
        /\ InitSolo(createInitialData, 50)
        /\ pc = "step"

\* The automaton step of a frame.
SettleStep ==
    /\ pc = "step"
    /\ \E out \in {Tabulate([i \in CellIds |-> sandStepCell(cellPos(i))])} :
        /\ materialTex' = [materialTex EXCEPT
                              ![sandOutIndex] = [i \in CellIds |-> out[i].mat]]
        /\ sandMetaTex' =
              [sandMetaTex EXCEPT
                 ![sandOutIndex] =
                    [i \in CellIds |->
                       IF getSandAge(out[i].meta) > 61
                       THEN packSandMeta(61, getSandColorVar(out[i].meta))
                       ELSE out[i].meta]]
        /\ solidVelTex' = [solidVelTex EXCEPT
                              ![sandOutIndex] = [i \in CellIds |-> out[i].vel]]
        /\ sandMove' = [i \in CellIds |-> out[i].move]
        /\ matIndex' = 1 - matIndex
    /\ pc' = "spawn"
    /\ UNCHANGED <<fluidVars, invoked, twin, steps, particleVars, frameVars,
                   soloVars>>

\* The rest of the frame: the spawn pass, which with no request copies the
\* material and the sand data to the other texture, and the substeps, which
\* leave the seed and the density the next automaton step will read.
SettleRest ==
    /\ pc = "spawn"
    /\ materialTex' = [materialTex EXCEPT ![spawnOutIndex] = materialIn]
    /\ sandMetaTex' = [sandMetaTex EXCEPT ![spawnOutIndex] = sandMetaIn]
    /\ matIndex' = 1 - matIndex
    /\ \E f \in 0 .. MaxSeed, wetness \in {0, INTERACT_THRESHOLD} :
         /\ params' = [params EXCEPT !.frame = f]
         /\ densityTex' = [i \in CellIds |-> wetness]
    /\ pc' = "step"
    /\ UNCHANGED <<solidVelTex, velIndex, velUTex, schedVars, particleVars,
                   frameVars, soloVars>>

SettleNext ==
    \/ SettleStep
    \/ SettleRest

SettleSpec == SettleInit /\ [][SettleNext]_vars

\* Frames never stop being run.  One of the two actions is always enabled
\* and changes pc, so WF_vars(SettleNext) is the condition below.
SettleFairSpec == SettleSpec /\ []<><<SettleNext>>_vars

PopInit ==
    \E n \in 0 .. MaxFree, R \in (SUBSET TopRow) \ {{}} :
      \E want \in [R -> 1 .. MaxPops] :
        /\ InitGrid(uniformSnapshot(buildMaterialState,
                        CHOOSE sc \in Scenes : sc.age = 11))
        /\ InitSolo(createInitialData, 50)
        /\ particlePos = [p \in ParticleIds |-> cellIndex(<<1, 2>>)]
        /\ particleVel = [p \in ParticleIds |-> <<0, 0>>]
        /\ particleMass =
              [p \in ParticleIds |-> IF p < MAX_PARTICLES - n THEN 1 ELSE 0]
        /\ cellCounts =
              [c \in CellIds |->
                 IF c = cellIndex(<<1, 2>>) THEN MAX_PARTICLES - n ELSE 0]
        /\ cellParticles =
              [c \in CellIds |->
                 IF c = cellIndex(<<1, 2>>)
                 THEN [k \in 1 .. MAX_CELL_PARTICLES |-> k - 1] ELSE << >>]
        /\ freeList = ascending(MAX_PARTICLES - n .. MAX_PARTICLES - 1)
        /\ freeCount = n
        /\ spawnTex = [c \in CellIds |-> IF c \in R THEN WATER ELSE 0]
        /\ spawnInv =
              [c \in R |-> [toSpawn |-> want[c], i |-> 0, old |-> 0,
                            at |-> "load", tries |-> 0, spur |-> 0,
                            lost |-> 0]]
        /\ popped = << >>
        /\ pc = "popping"

\* popFreeIndex, entry: var old = atomicLoad(&freeCount).
PopCallLoad ==
    /\ pc = "popping"
    /\ \E c \in DOMAIN spawnInv :
         /\ spawnInv[c].at = "load"
         /\ spawnInv' = [spawnInv EXCEPT ![c].old = freeCount,
                                         ![c].at = "cas", ![c].tries = 0,
                                         ![c].spur = 0, ![c].lost = 0]
    /\ UNCHANGED soloVars
    /\ UNCHANGED <<gridVars, fluidVars, schedVars, frameVars, pc, particlePos,
                   particleVel, particleMass, cellCounts, cellParticles,
                   freeCount, freeList, spawnTex, popped>>

\* The value the loop goes round with after a failed exchange.
retryOld_Keeps(old, oldValue) == old

\* old = res.old_value.
retryOld(old, oldValue) == oldValue

\* popFreeIndex, one turn of the loop: return -1 on an empty list, else one
\* exchange attempt; on success the slot is returned and the particle is
\* stored, on failure the loop goes round with the value the exchange read.
PopCallExchange ==
    /\ pc = "popping"
    /\ \E c \in DOMAIN spawnInv, spurious \in BOOLEAN :
         /\ spawnInv[c].at = "cas"
         /\ spurious => spawnInv[c].spur < MaxSpurious
         /\ IF spawnInv[c].old = 0
            THEN /\ spawnInv' = [spawnInv EXCEPT ![c].at = "denied"]
                 /\ UNCHANGED <<freeCount, particlePos, particleVel,
                                particleMass, popped>>
            ELSE IF freeCount = spawnInv[c].old /\ ~spurious
            THEN \E idx \in freeEntry(spawnInv[c].old - 1) :
                     /\ freeCount' = spawnInv[c].old - 1
                     /\ particlePos' = [particlePos EXCEPT ![idx] = c]
                     /\ particleVel' = [particleVel EXCEPT ![idx] = <<0, 0>>]
                     /\ particleMass' = [particleMass EXCEPT ![idx] = 1]
                     /\ popped' = Append(popped, idx)
                     /\ spawnInv' =
                           [spawnInv EXCEPT
                              ![c].tries = @ + 1,
                              ![c].i = @ + 1,
                              ![c].at = IF spawnInv[c].i + 1 < spawnInv[c].toSpawn
                                        THEN "load" ELSE "done"]
            ELSE /\ spawnInv' =
                       [spawnInv EXCEPT
                          ![c].old = retryOld(spawnInv[c].old, freeCount),
                          ![c].tries = @ + 1,
                          ![c].spur = IF freeCount = spawnInv[c].old
                                      THEN @ + 1 ELSE @,
                          ![c].lost = IF freeCount = spawnInv[c].old
                                      THEN @ ELSE @ + 1]
                 /\ UNCHANGED <<freeCount, particlePos, particleVel,
                                particleMass, popped>>
    /\ UNCHANGED soloVars
    /\ UNCHANGED <<gridVars, fluidVars, schedVars, frameVars, pc, cellCounts,
                   cellParticles, freeList, spawnTex>>

PopNext ==
    \/ PopCallLoad
    \/ PopCallExchange

PopSpec == PopInit /\ [][PopNext]_vars

\* Successful decrements of the pass so far that invocation c did not make.
othersPops(c) == (Len(freeList) - freeCount) - spawnInv[c].i

\* C38: with n free slots at the start of the pass a popFreeIndex call
\* makes at most n + 1 exchange attempts apart from those that fail
\* spuriously, and each of its other failed attempts follows a successful
\* decrement of another caller; a call returns -1 only on an empty list.
C38_BoundedRetries ==
    \A c \in DOMAIN spawnInv :
        /\ spawnInv[c].tries - spawnInv[c].spur <= Len(freeList) + 1
        /\ spawnInv[c].lost <= othersPops(c)
        /\ spawnInv[c].tries = spawnInv[c].spur + spawnInv[c].lost
                                 + (IF spawnInv[c].at \in {"load", "done"}
                                       /\ spawnInv[c].tries > 0 THEN 1 ELSE 0)
        /\ spawnInv[c].at = "denied" => freeCount = 0

\* A call that lost an exchange to another caller, failed once spuriously
\* and then returned a slot.
C38_Witness ==
    \E c \in DOMAIN spawnInv :
        /\ spawnInv[c].at = "done"
        /\ spawnInv[c].lost >= 1
        /\ spawnInv[c].spur >= 1
        /\ spawnInv[c].tries = spawnInv[c].lost + spawnInv[c].spur + 1

\* C38 as stated: a call makes at most n + 1 exchange attempts, each failed
\* one after a successful decrement of another caller.
C38_AsStated ==
    \A c \in DOMAIN spawnInv :
        /\ spawnInv[c].tries <= Len(freeList) + 1
        /\ spawnInv[c].tries - (IF spawnInv[c].at \in {"load", "done"}
                                   /\ spawnInv[c].tries > 0 THEN 1 ELSE 0)
             <= othersPops(c)


(***************************************************************************)
(* WaterSpec: the WATER branch of the spawn pass.  A position is a point   *)
(* in units of 1 / (2 * WaterSide) of a cell, a mass is a fraction         *)
(* <<numerator, denominator>>.  Two neighbouring cells of the top row      *)
(* hold 0 to WaterPerCell + 1 and 0 or 2 live particles, the other live    *)
(* particles sit in a third cell, and the free list holds the dead slots.  *)
(* popFreeIndex returns distinct entries of the list from its end in       *)
(* every interleaving, so a call and the stores that follow it are one     *)
(* step here.                                                              *)
(***************************************************************************)
\* slotOffset: the centre of slot number slot of a side x side square.
slotOffset(side, slot) == <<2 * (slot % side) + 1, 2 * (slot \div side) + 1>>

\* The corner of cell c, and the cell a point lies in.
cellBase(side, c) == <<2 * side * cellPos(c)[1], 2 * side * cellPos(c)[2]>>

cellOfPoint(side, pt) == cellIndex(<<pt[1] \div (2 * side), pt[2] \div (2 * side)>>)

\* Variant: a request fills in a full set whatever the cell holds.
waterToSpawn_Uncapped(perCell, mat, count) ==
    IF isSolid(mat) THEN 0 ELSE perCell

\* existing = min(cellCounts[cIdx], PARTICLES_PER_CELL) and
\* toSpawn = PARTICLES_PER_CELL - existing, in a cell that is not solid.
waterToSpawn(perCell, mat, count) ==
    IF isSolid(mat) THEN 0 ELSE perCell - Min(count, perCell)

WaterA == cellIndex(<<1, 1>>)
WaterB == cellIndex(<<2, 1>>)
WaterElsewhere == cellIndex(<<3, 3>>)

WaterInit ==
    \E k \in 0 .. WaterPerCell + 1, kb \in {0, 2},
       n \in {0, 1, WaterPerCell + 1, 2 * WaterPerCell},
       matB \in {EMPTY, SAND, WALL, ROCK},
       R \in (SUBSET {WaterA, WaterB}) \ {{}} :
        /\ matB # EMPTY => kb = 0
        /\ InitGrid(uniformSnapshot(
                        sparseMaterial([c \in {WaterB} |-> matB]),
                        CHOOSE sc \in Scenes : sc.age = 11))
        /\ InitSolo(createInitialData, 50)
        /\ particlePos =
              [p \in ParticleIds |->
                 IF p < k THEN <<cellBase(WaterSide, WaterA)[1] + 2,
                                 cellBase(WaterSide, WaterA)[2] + 1>>
                 ELSE IF p < k + kb
                 THEN <<cellBase(WaterSide, WaterB)[1],
                        cellBase(WaterSide, WaterB)[2] + 3>>
                 ELSE cellBase(WaterSide, WaterElsewhere)]
        /\ particleVel = [p \in ParticleIds |-> <<0, 0>>]
        /\ particleMass =
              [p \in ParticleIds |->
                 IF p < MAX_PARTICLES - n THEN <<1, WaterPerCell>>
                 ELSE <<0, 1>>]
        /\ cellCounts =
              [c \in CellIds |->
                 IF c = WaterA THEN k
                 ELSE IF c = WaterB THEN kb
                 ELSE IF c = WaterElsewhere THEN MAX_PARTICLES - n - k - kb
                 ELSE 0]
        /\ cellParticles =
              [c \in CellIds |->
                 IF c = WaterA
                 THEN [j \in 1 .. Min(k, MAX_CELL_PARTICLES) |-> j - 1]
                 ELSE IF c = WaterB
                 THEN [j \in 1 .. Min(kb, MAX_CELL_PARTICLES) |-> k + j - 1]
                 ELSE IF c = WaterElsewhere
                 THEN [j \in 1 .. MAX_CELL_PARTICLES |-> k + kb + j - 1]
                 ELSE << >>]
        /\ freeList = ascending(MAX_PARTICLES - n .. MAX_PARTICLES - 1)
        /\ freeCount = n
        /\ spawnTex = [c \in CellIds |-> IF c \in R THEN WATER ELSE 0]
        /\ spawnInv = << >>
        /\ popped = << >>
        /\ pc = "spawn"

\* The invocations of the pass start: each one with a WATER request works
\* out toSpawn.  The material and the sand data of a cell with a WATER
\* request or none are copied to the output textures.
WaterBegin ==
    /\ pc = "spawn"
    /\ materialTex' = [materialTex EXCEPT ![spawnOutIndex] = materialIn]
    /\ sandMetaTex' = [sandMetaTex EXCEPT ![spawnOutIndex] = sandMetaIn]
    /\ spawnInv' =
          [c \in {d \in CellIds : spawnTex[d] = WATER} |->
             [toSpawn |-> waterToSpawn(WaterPerCell, materialIn[c],
                                       cellCounts[c]),
              i |-> 0, made |-> {}, at |-> "pop"]]
    /\ pc' = "popping"
    /\ UNCHANGED soloVars
    /\ UNCHANGED <<solidVelTex, matIndex, fluidVars, schedVars, frameVars,
                   particlePos, particleVel, particleMass, cellCounts,
                   cellParticles, freeCount, freeList, spawnTex, popped>>

\* One turn of the loop of an invocation: leave it when i reaches toSpawn or
\* popFreeIndex returns -1, else store the particle of slot i.
WaterPop ==
    /\ pc = "popping"
    /\ \E c \in DOMAIN spawnInv :
         /\ spawnInv[c].at = "pop"
         /\ IF spawnInv[c].i >= spawnInv[c].toSpawn \/ freeCount = 0
            THEN /\ spawnInv' = [spawnInv EXCEPT ![c].at = "done"]
                 /\ UNCHANGED <<freeCount, particlePos, particleVel,
                                particleMass, popped>>
            ELSE LET idx == freeList[freeCount]
                     offset == slotOffset(WaterSide, spawnInv[c].i)
                     base == cellBase(WaterSide, c)
                 IN  /\ freeCount' = freeCount - 1
                     /\ particlePos' =
                           [particlePos EXCEPT
                              ![idx] = <<base[1] + offset[1],
                                         base[2] + offset[2]>>]
                     /\ particleVel' = [particleVel EXCEPT ![idx] = <<0, 0>>]
                     /\ particleMass' =
                           [particleMass EXCEPT ![idx] = <<1, WaterPerCell>>]
                     /\ popped' = Append(popped, idx)
                     /\ spawnInv' = [spawnInv EXCEPT
                                        ![c].i = @ + 1,
                                        ![c].made = @ \cup {idx}]
    /\ UNCHANGED soloVars
    /\ UNCHANGED <<gridVars, fluidVars, schedVars, frameVars, pc, cellCounts,
                   cellParticles, freeList, spawnTex>>

\* Every invocation has returned; the driver swaps the material index.
WaterEnd ==
    /\ pc = "popping"
    /\ \A c \in DOMAIN spawnInv : spawnInv[c].at = "done"
    /\ matIndex' = 1 - matIndex
    /\ pc' = "spawned"
    /\ UNCHANGED soloVars
    /\ UNCHANGED <<materialTex, sandMetaTex, solidVelTex, fluidVars, schedVars,
                   particleVars, frameVars>>

WaterNext ==
    \/ WaterBegin
    \/ WaterPop
    \/ WaterEnd

WaterSpec == WaterInit /\ [][WaterNext]_vars

\* Live particles whose position lies in cell c.
liveAt(c) ==
    {p \in ParticleIds :
        particleMass[p][1] > 0 /\ cellOfPoint(WaterSide, particlePos[p]) = c}

\* C39: a WATER request never raises the particle count of its cell above
\* PARTICLES_PER_CELL.  Into a cell that held k binned particles it creates
\* max(0, PARTICLES_PER_CELL - k) particles, fewer only if the free list ran
\* out, each with mass 1 / PARTICLES_PER_CELL, zero velocity and a position
\* inside the cell; the material of the cell is unchanged and a solid cell
\* gets none.
C39_WaterFillsUpToCap ==
    pc \in {"popping", "spawned"} =>
      \A c \in DOMAIN spawnInv :
        LET k == cellCounts[c]
            made == spawnInv[c].made
            before == IF pc = "spawned" THEN 1 - matIndex ELSE matIndex
            want == IF isSolid(materialTex[before][c]) THEN 0
                    ELSE IF k < WaterPerCell THEN WaterPerCell - k ELSE 0
        IN  /\ Cardinality(made) <= want
            /\ spawnInv[c].at = "done" =>
                  Cardinality(made) = want \/ freeCount = 0
            /\ \A p \in made :
                  /\ particleMass[p] = <<1, WaterPerCell>>
                  /\ particleVel[p] = <<0, 0>>
                  /\ cellOfPoint(WaterSide, particlePos[p]) = c
            /\ Cardinality(liveAt(c)) = k + Cardinality(made)
            /\ Cardinality(liveAt(c)) <= Max(k, WaterPerCell)
            /\ materialTex[1 - before][c] = materialTex[before][c]
            /\ isSolid(materialTex[before][c]) => made = {}

\* The pass is over: a request topped a cell holding one particle up to the
\* full set, another one ran out of free slots before it had filled its
\* cell.
C39_Witness ==
    /\ pc = "spawned"
    /\ \E c, d \in DOMAIN spawnInv :
         /\ cellCounts[c] = 1
         /\ Cardinality(spawnInv[c].made) = WaterPerCell - 1
         /\ Cardinality(liveAt(c)) = WaterPerCell
         /\ c # d
         /\ Cardinality(spawnInv[d].made) \in 1 .. WaterPerCell - 1
         /\ cellCounts[d] = 0

====
